---- MODULE Spec2Model ----
(***************************************************************************)
(* Verification model of the Nemesis audit core:                           *)
(*   - the structural diff engine   (structure/diff.ts, diffStructures)    *)
(*   - the reference catalog resolver (reference/library.ts)               *)
(*   - the snapshot walk            (structure/snapshot.ts, snapshotTree)  *)
(*   - the catalog load guard       (ensureReferenceCatalogsLoaded)        *)
(* Each subsystem has its own specification over its own variables; the    *)
(* variables of the other subsystems stay at their initial value.          *)
(*                                                                         *)
(* Optional values: a JavaScript null / undefined is the empty tuple None, *)
(* a present value v is the one-element tuple <<v>>.                       *)
(***************************************************************************)
EXTENDS Integers, Sequences, FiniteSets, TLC

VARIABLES
    \* ---- diff engine ----
    actual,        \* diffStructures argument: DSStructureNode[]
    reference,     \* diffStructures argument: DSStructureNode[]
    strict,        \* options.strict
    resolvers,     \* options.resolve*Label callbacks of the run
    altResolvers,  \* callbacks of a second run over the same inputs
    diffResult,    \* { diffs, issues } of the run with `resolvers`
    altResult,     \* { diffs, issues } of the run with `altResolvers`
    diffPc,        \* "start" | "done"
    \* ---- catalog resolver ----
    heap,          \* the node objects: address -> DSStructureNode
    component,     \* the LibraryComponent looked at (or null)
    calls,         \* the resolveStructure calls made so far, with results
    \* ---- snapshot walk ----
    tree,          \* the node tree handed to snapshotTree
    walk,          \* nextId, list and the suspended walks of the call
    snapPc,        \* "idle" | "running" | "done" | "rejected"
    \* ---- catalog load guard ----
    catalogLoadState,  \* { ready, promise }: promise is null or that of a run
    catalogSources,    \* whether the source list has been fetched and kept
    runs,              \* the invocations of loadAllCatalogs
    nextRun,           \* the number of the next invocation
    fetches,           \* the component catalog fetches not settled yet
    callers,           \* the calls of ensureReferenceCatalogsLoaded
    \* ---- audit run ----
    scanInProgress,    \* module flag of code.ts
    cancelRequested,   \* module flag of code.ts
    idleCancel,        \* a cancel-scan arrived since the last audit ended
    audit,             \* the current (or last) runAudit call
    \* ---- catalog hydration ----
    modules,             \* the fetched component catalogs
    hydratePc,           \* "idle" | "fetched" | "hydrated" | "ready"
    validationWarnings,  \* the list hydrateCatalogs collects
    console,             \* the lines written with console.warn
    \* ---- paint extraction ----
    sceneNode,           \* the paints, style id and stroke weight of the node
    paintInfo,           \* what extractFillInfo or extractStrokeInfo returned
    extractPc,           \* "start" | "fill" | "stroke"
    \* ---- component lookup ----
    library,             \* the catalog components after prepareComponent
    lookups,             \* the calls of findComponentByKeyOrName made, with results
    findPc               \* "fetched" | "ready"

diffVars == <<actual, reference, strict, resolvers, altResolvers,
              diffResult, altResult, diffPc>>

resolveVars == <<heap, component, calls>>

snapshotVars == <<tree, walk, snapPc>>

loadVars == <<catalogLoadState, catalogSources, runs, nextRun, fetches, callers>>

auditVars == <<scanInProgress, cancelRequested, idleCancel, audit>>

hydrateVars == <<modules, hydratePc, validationWarnings, console>>

extractVars == <<sceneNode, paintInfo, extractPc>>

findVars == <<library, lookups, findPc>>

None == <<>>

Some(v) == <<v>>

\* JavaScript truthiness of an optional string: null, undefined and "" are falsy
Truthy(s) == s # None /\ s # <<"">>

-----------------------------------------------------------------------------
(***************************************************************************)
(* Structural diff engine                                                  *)
(***************************************************************************)

sides == <<"top", "right", "bottom", "left">>

\* a node with no optional attribute at all
BlankNode(path) ==
    [ path |-> path,
      padding |-> [s \in {"top", "right", "bottom", "left"} |-> None],
      paddingTokens |-> [s \in {"top", "right", "bottom", "left"} |-> None],
      itemSpacing |-> None,
      itemSpacingToken |-> None,
      styles |-> [fill |-> None, stroke |-> None, text |-> None],
      fill |-> None,
      stroke |-> None,
      radius |-> None,
      radiusToken |-> None,
      opacity |-> None,
      opacityToken |-> None ]

\* diffs.push({ message, nodePath, ... }); attr names the attribute check
\* that produced the entry (the fixed prefix of its message)
pushDiff(acc, path, attr, refText, actText) ==
    [acc EXCEPT !.diffs = Append(@, [ nodePath |-> path, attr |-> attr,
                                      message |-> <<attr, refText, actText>> ])]

\* issueSet.add(message): a Set keeps insertion order and drops repeats
addIssue(acc, path, attr) ==
    IF \E i \in 1..Len(acc.issues) : acc.issues[i] = <<attr, path>>
    THEN acc
    ELSE [acc EXCEPT !.issues = Append(@, <<attr, path>>)]

\* new Map(nodes.map((node) => [node.path, node])): a path keeps the position
\* of its first occurrence and the value of its last one
RECURSIVE MapOfNodes(_, _)
MapOfNodes(nodes, map) ==
    IF nodes = <<>> THEN map
    ELSE LET n == Head(nodes)
             hit == {i \in 1..Len(map) : map[i].path = n.path}
         IN  MapOfNodes(Tail(nodes),
                        IF hit = {} THEN Append(map, n)
                        ELSE [i \in 1..Len(map) |->
                                 IF i \in hit THEN n ELSE map[i]])

\* Map.prototype.get
MapGet(map, path) ==
    IF \E i \in 1..Len(map) : map[i].path = path
    THEN Some(map[CHOOSE i \in 1..Len(map) : map[i].path = path])
    ELSE None

\* an iteration that compares the side's token whatever the values
comparePaddingSideTokenAlways(acc, path, side, a, b, actualToken, refToken, isStrict) ==
    IF b = None THEN acc
    ELSE IF Truthy(refToken) /\ actualToken # refToken
         THEN pushDiff(IF a # b
                       THEN pushDiff(acc, path, "padding " \o side, b, a)
                       ELSE acc,
                       path, "token padding " \o side, refToken, actualToken)
    ELSE IF a # b THEN pushDiff(acc, path, "padding " \o side, b, a)
    ELSE acc

\* one iteration of the loop over sides in comparePadding
comparePaddingSide(acc, path, side, a, b, actualToken, refToken, isStrict) ==
    IF b = None THEN acc
    ELSE IF isStrict /\ a = None
         THEN addIssue(acc, path, "padding " \o side)
    ELSE IF a # b
         THEN pushDiff(acc, path, "padding " \o side, b, a)
    ELSE IF Truthy(refToken)
         THEN IF isStrict /\ ~Truthy(actualToken)
              THEN addIssue(acc, path, "token padding " \o side)
              ELSE IF actualToken # refToken
                   THEN pushDiff(acc, path, "token padding " \o side,
                                 refToken, actualToken)
                   ELSE acc
    ELSE acc

RECURSIVE comparePaddingFrom(_, _, _, _, _, _)
comparePaddingFrom(acc, path, a, r, isStrict, i) ==
    IF i > Len(sides) THEN acc
    ELSE comparePaddingFrom(
             comparePaddingSide(acc, path, sides[i],
                                a.padding[sides[i]], r.padding[sides[i]],
                                a.paddingTokens[sides[i]],
                                r.paddingTokens[sides[i]], isStrict),
             path, a, r, isStrict, i + 1)

comparePadding(acc, path, a, r, isStrict) ==
    comparePaddingFrom(acc, path, a, r, isStrict, 1)

\* the two item-spacing blocks of compareNode
compareItemSpacing(acc, path, a, r, isStrict) ==
    LET acc1 ==
            IF r.itemSpacing # None /\ a.itemSpacing # r.itemSpacing
            THEN IF isStrict /\ a.itemSpacing = None
                 THEN addIssue(acc, path, "itemSpacing")
                 ELSE pushDiff(acc, path, "itemSpacing",
                               r.itemSpacing, a.itemSpacing)
            ELSE acc
    IN  IF Truthy(r.itemSpacingToken)
        THEN IF isStrict /\ ~Truthy(a.itemSpacingToken)
             THEN addIssue(acc1, path, "token itemSpacing")
             ELSE IF a.itemSpacingToken # r.itemSpacingToken
                  THEN pushDiff(acc1, path, "token itemSpacing",
                                r.itemSpacingToken, a.itemSpacingToken)
                  ELSE acc1
        ELSE acc1

\* resolveStyleLabel ? resolveStyleLabel(styleKey) || styleKey : styleKey
formatStyle(res, styleKey) ==
    IF ~Truthy(styleKey) THEN None
    ELSE IF res.given /\ Truthy(res.style[styleKey[1]])
         THEN res.style[styleKey[1]]
         ELSE styleKey

compareStyle(acc, path, label, a, r, res) ==
    IF r = None THEN acc
    ELSE IF a = r THEN acc
    ELSE pushDiff(acc, path, "style " \o label,
                  formatStyle(res, r), formatStyle(res, a))

\* resolveTokenLabel ? resolveTokenLabel(token) || token : token
formatToken(res, token) ==
    IF ~Truthy(token) THEN None
    ELSE IF res.given /\ Truthy(res.token[token[1]])
         THEN res.token[token[1]]
         ELSE token

\* resolveColorLabel(color), None when no callback was passed
colorLabel(res, color) ==
    IF res.given THEN res.color[color[1]] ELSE None

PaintColor(p) == IF p = None THEN None ELSE p[1].color

\* actual?.token ?? null with the token binding of the paint ignored
PaintTokenIgnored(p) == None

PaintToken(p) == IF p = None THEN None ELSE p[1].token

comparePaint(acc, path, label, a, r, isStrict, res) ==
    IF r = None \/ (~Truthy(PaintColor(r)) /\ ~Truthy(PaintToken(r)))
    THEN acc
    ELSE IF isStrict
            /\ (a = None \/ (~Truthy(PaintColor(a)) /\ ~Truthy(PaintToken(a))))
         THEN addIssue(acc, path, label)
    ELSE
    LET actualToken == PaintToken(a)
        referenceToken == PaintToken(r)
        actualColor == PaintColor(a)
        referenceColor == PaintColor(r)
        actualTokenLabel == formatToken(res, actualToken)
        referenceTokenLabel ==
            IF ~Truthy(formatToken(res, referenceToken))
               /\ Truthy(referenceColor) /\ res.given
            THEN colorLabel(res, referenceColor)
            ELSE formatToken(res, referenceToken)
    IN  IF Truthy(actualToken) /\ Truthy(referenceToken)
           /\ actualToken = referenceToken
        THEN acc
        ELSE IF Truthy(referenceTokenLabel) /\ Truthy(actualTokenLabel)
        THEN IF referenceTokenLabel = actualTokenLabel THEN acc
             ELSE pushDiff(acc, path, label, referenceTokenLabel,
                           <<"token", actualTokenLabel>>)
        ELSE IF Truthy(actualColor) /\ Truthy(referenceTokenLabel)
        THEN pushDiff(acc, path, label, referenceTokenLabel, actualColor)
        ELSE IF Truthy(referenceColor)
        THEN IF Truthy(actualTokenLabel)
             THEN pushDiff(acc, path, label, referenceColor,
                           <<"token", actualTokenLabel>>)
             ELSE IF referenceColor = actualColor THEN acc
             ELSE pushDiff(acc, path, label, referenceColor, actualColor)
        ELSE IF Truthy(referenceTokenLabel) \/ Truthy(actualTokenLabel)
        THEN IF referenceTokenLabel = actualTokenLabel THEN acc
             ELSE pushDiff(acc, path, label, referenceTokenLabel,
                           <<"token", actualTokenLabel>>)
        ELSE acc

PaintWeight(p) == IF p = None THEN None ELSE p[1].weight

compareStroke(acc, path, a, r, isStrict, res) ==
    IF r = None
    THEN LET actualToken == PaintToken(a)
             actualColor == PaintColor(a)
             actualWeight == PaintWeight(a)
             hasActualStroke ==
                 /\ (Truthy(actualToken) \/ Truthy(actualColor))
                 /\ actualWeight # None
                 /\ actualWeight[1] > 0
             tokenLabel == formatToken(res, actualToken)
             colorLbl == IF ~Truthy(tokenLabel) /\ Truthy(actualColor)
                            /\ res.given
                         THEN colorLabel(res, actualColor)
                         ELSE None
             target == IF Truthy(tokenLabel) THEN <<"token", tokenLabel>>
                       ELSE IF Truthy(colorLbl) THEN <<"token", colorLbl>>
                       ELSE actualColor
         IN  IF hasActualStroke
             THEN pushDiff(acc, path, "stroke", None, target)
             ELSE acc
    ELSE LET acc1 == comparePaint(acc, path, "stroke", a, r, isStrict, res)
             actualWeight == PaintWeight(a)
         IN  IF PaintWeight(r) # None
             THEN IF isStrict /\ actualWeight = None
                  THEN addIssue(acc1, path, "stroke weight")
                  ELSE IF actualWeight # PaintWeight(r)
                       THEN pushDiff(acc1, path, "stroke weight",
                                     PaintWeight(r), actualWeight)
                       ELSE acc1
             ELSE acc1

\* a value normalisation the comparison does not make: a four-corner record
\* with four equal corners prints as the scalar
stringifyRadiusNormalized(v) ==
    IF v = None THEN <<"null">>
    ELSE IF v[1].kind = "number" THEN <<"num", v[1].all>>
    ELSE IF {v[1].topLeft, v[1].topRight, v[1].bottomRight, v[1].bottomLeft}
            = {v[1].topLeft}
    THEN <<"num", v[1].topLeft>>
    ELSE <<"{", "topLeft", v[1].topLeft, "topRight", v[1].topRight,
           "bottomRight", v[1].bottomRight, "bottomLeft", v[1].bottomLeft, "}">>

\* JSON.stringify of a DSRadii value: a scalar prints as its digits, a
\* four-corner record as an object with its keys
stringifyRadius(v) ==
    IF v = None THEN <<"null">>
    ELSE IF v[1].kind = "number" THEN <<"num", v[1].all>>
    ELSE <<"{", "topLeft", v[1].topLeft, "topRight", v[1].topRight,
           "bottomRight", v[1].bottomRight, "bottomLeft", v[1].bottomLeft, "}">>

\* compareRadius with the value diff pushed before the token entry
compareRadiusValueFirst(acc, path, a, r, isStrict) ==
    IF r.radius = None THEN acc
    ELSE IF isStrict /\ a.radius = None
         THEN addIssue(acc, path, "radius")
    ELSE
    LET acc1 ==
            IF stringifyRadius(a.radius) = stringifyRadius(r.radius)
            THEN acc
            ELSE pushDiff(acc, path, "radius", stringifyRadius(r.radius),
                          stringifyRadius(a.radius))
    IN  IF Truthy(r.radiusToken)
        THEN IF isStrict /\ ~Truthy(a.radiusToken)
             THEN addIssue(acc1, path, "token radius")
             ELSE IF a.radiusToken # r.radiusToken
                  THEN pushDiff(acc1, path, "token radius",
                                r.radiusToken, a.radiusToken)
                  ELSE acc1
        ELSE acc1

compareRadius(acc, path, a, r, isStrict) ==
    IF r.radius = None THEN acc
    ELSE IF isStrict /\ a.radius = None
         THEN addIssue(acc, path, "radius")
    ELSE
    LET acc1 ==
            IF Truthy(r.radiusToken)
            THEN IF isStrict /\ ~Truthy(a.radiusToken)
                 THEN addIssue(acc, path, "token radius")
                 ELSE IF a.radiusToken # r.radiusToken
                      THEN pushDiff(acc, path, "token radius",
                                    r.radiusToken, a.radiusToken)
                      ELSE acc
            ELSE acc
    IN  IF stringifyRadius(a.radius) = stringifyRadius(r.radius)
        THEN acc1
        ELSE pushDiff(acc1, path, "radius", stringifyRadius(r.radius),
                      stringifyRadius(a.radius))

\* Number(x.toFixed(2)) for an opacity held in thousandths: the nearest
\* hundredth, in hundredths
toFixed2(x) == (x + 5) \div 10

compareOpacity(acc, path, a, r, isStrict) ==
    IF r.opacity = None THEN acc
    ELSE IF isStrict /\ a.opacity = None
         THEN addIssue(acc, path, "opacity")
    ELSE
    LET normalizedActual ==
            IF a.opacity = None THEN None ELSE Some(toFixed2(a.opacity[1]))
        normalizedReference == Some(toFixed2(r.opacity[1]))
        acc1 ==
            IF Truthy(r.opacityToken)
            THEN IF isStrict /\ ~Truthy(a.opacityToken)
                 THEN addIssue(acc, path, "token opacity")
                 ELSE IF a.opacityToken # r.opacityToken
                      THEN pushDiff(acc, path, "token opacity",
                                    r.opacityToken, a.opacityToken)
                      ELSE acc
            ELSE acc
    IN  IF normalizedActual = normalizedReference THEN acc1
        ELSE pushDiff(acc1, path, "opacity", normalizedReference,
                      normalizedActual)

\* compareNode with the opacity compared before the radius
compareNodeOpacityFirst(acc, path, a, r, isStrict, res) ==
    compareRadius(
        compareOpacity(
            compareStroke(
                comparePaint(
                    compareStyle(
                        compareStyle(
                            compareStyle(
                                compareItemSpacing(
                                    comparePadding(acc, path, a, r, isStrict),
                                    path, a, r, isStrict),
                                path, "fill", a.styles.fill, r.styles.fill,
                                res),
                            path, "stroke", a.styles.stroke, r.styles.stroke,
                            res),
                        path, "text", a.styles.text, r.styles.text, res),
                    path, "fill", a.fill, r.fill, isStrict, res),
                path, a.stroke, r.stroke, isStrict, res),
            path, a, r, isStrict),
        path, a, r, isStrict)

compareNode(acc, path, a, r, isStrict, res) ==
    LET s1 == comparePadding(acc, path, a, r, isStrict)
        s2 == compareItemSpacing(s1, path, a, r, isStrict)
        s3 == compareStyle(s2, path, "fill", a.styles.fill, r.styles.fill, res)
        s4 == compareStyle(s3, path, "stroke", a.styles.stroke,
                           r.styles.stroke, res)
        s5 == compareStyle(s4, path, "text", a.styles.text, r.styles.text, res)
        s6 == comparePaint(s5, path, "fill", a.fill, r.fill, isStrict, res)
        s7 == compareStroke(s6, path, a.stroke, r.stroke, isStrict, res)
        s8 == compareRadius(s7, path, a, r, isStrict)
    IN  compareOpacity(s8, path, a, r, isStrict)

\* the loop of diffStructures reporting a reference path that the actual
\* structure lacks instead of skipping it
RECURSIVE diffLoopReportingMissing(_, _, _, _, _, _)
diffLoopReportingMissing(acc, referenceMap, actualMap, isStrict, res, i) ==
    IF i > Len(referenceMap) THEN acc
    ELSE LET ref == referenceMap[i]
             node == MapGet(actualMap, ref.path)
         IN  diffLoopReportingMissing(
                 IF node = None
                 THEN pushDiff(acc, ref.path, "node", "present", "missing")
                 ELSE compareNode(acc, ref.path, node[1], ref, isStrict, res),
                 referenceMap, actualMap, isStrict, res, i + 1)

RECURSIVE diffLoop(_, _, _, _, _, _)
diffLoop(acc, referenceMap, actualMap, isStrict, res, i) ==
    IF i > Len(referenceMap) THEN acc
    ELSE LET ref == referenceMap[i]
             node == MapGet(actualMap, ref.path)
         IN  diffLoop(IF node = None THEN acc
                      ELSE compareNode(acc, ref.path, node[1], ref,
                                       isStrict, res),
                      referenceMap, actualMap, isStrict, res, i + 1)

diffStructures(act, ref, isStrict, res) ==
    diffLoop([diffs |-> <<>>, issues |-> <<>>],
             MapOfNodes(ref, <<>>), MapOfNodes(act, <<>>), isStrict, res, 1)

-----------------------------------------------------------------------------
(***************************************************************************)
(* Inputs of the diff engine: nodes that populate one attribute group      *)
(***************************************************************************)

MaxExtra == 1

Tokens == {"T1", "T2"}

Colors == {"c1", "c2"}

StyleKeys == {"S1", "S2"}

OptOf(S) == {None} \cup {Some(v) : v \in S}

\* a token binding is recorded for an attribute only together with its value
\* (extractLayout, snapshotNode)
PaddingNodes(p) ==
    {[BlankNode(p) EXCEPT !.padding["top"] = t, !.paddingTokens["top"] = k]
        : t \in OptOf({8, 16}), k \in {None}}
    \cup
    {[BlankNode(p) EXCEPT !.padding["top"] = Some(t),
                          !.paddingTokens["top"] = k]
        : t \in {8, 16}, k \in OptOf(Tokens)}
    \cup
    {[BlankNode(p) EXCEPT !.padding["top"] = Some(8),
                          !.padding["left"] = Some(l),
                          !.paddingTokens["left"] = kl]
        : l \in {8, 16}, kl \in OptOf({"T1"})}

SpacingNodes(p) ==
    {[BlankNode(p) EXCEPT !.itemSpacing = v, !.itemSpacingToken = k]
        : v \in OptOf({8, 16}), k \in OptOf(Tokens)}

StyleNodes(p) ==
    {[BlankNode(p) EXCEPT !.styles.fill = f, !.styles.text = t]
        : f \in OptOf(StyleKeys), t \in OptOf({"S1"})}
    \cup
    {[BlankNode(p) EXCEPT !.styles.stroke = s] : s \in OptOf(StyleKeys)}

FillNodes(p) ==
    {BlankNode(p)} \cup
    {[BlankNode(p) EXCEPT !.fill = Some([color |-> c, token |-> k])]
        : c \in OptOf(Colors), k \in OptOf(Tokens)}

StrokeNodes(p) ==
    {BlankNode(p)} \cup
    {[BlankNode(p) EXCEPT
         !.stroke = Some([color |-> c, token |-> k, weight |-> w])]
        : c \in OptOf({"c1"}), k \in OptOf(Tokens), w \in OptOf({0, 1})}

RadiusValues ==
    { [kind |-> "number", all |-> 8], [kind |-> "number", all |-> 4],
      [kind |-> "corners", topLeft |-> 8, topRight |-> 8,
       bottomRight |-> 8, bottomLeft |-> 8] }

\* compareRadius takes the radius and the radius token of either node as
\* independent, nullable arguments: a token may come without a radius
RadiusNodes(p) ==
    {BlankNode(p)} \cup
    {[BlankNode(p) EXCEPT !.radius = Some(v), !.radiusToken = k]
        : v \in RadiusValues, k \in OptOf(Tokens)}
    \cup
    {[BlankNode(p) EXCEPT !.radiusToken = Some(k)] : k \in Tokens}

\* opacities are held in thousandths: 0.5, 0.504, 1
OpacityNodes(p) ==
    {BlankNode(p)} \cup
    {[BlankNode(p) EXCEPT !.opacity = Some(v), !.opacityToken = k]
        : v \in {500, 504, 1000}, k \in OptOf({"T1"})}

\* pairs (actual node, reference node) over one attribute group
NodePairs(p) ==
    (StyleNodes(p) \X StyleNodes(p)) \cup
    (PaddingNodes(p) \X PaddingNodes(p)) \cup
    (SpacingNodes(p) \X SpacingNodes(p)) \cup
    (FillNodes(p) \X FillNodes(p)) \cup
    (StrokeNodes(p) \X StrokeNodes(p)) \cup
    (RadiusNodes(p) \X RadiusNodes(p)) \cup
    (OpacityNodes(p) \X OpacityNodes(p))

\* further nodes of a structure: another path, or the first path once more
ExtraNodes ==
    { [BlankNode("b") EXCEPT !.fill = Some([color |-> Some("c1"),
                                            token |-> None])],
      [BlankNode("a") EXCEPT !.opacity = Some(500)] }

RECURSIVE SeqsUpTo(_, _)
SeqsUpTo(S, n) ==
    IF n = 0 THEN {<<>>}
    ELSE SeqsUpTo(S, n - 1) \cup
         {Append(q, x) : q \in {r \in SeqsUpTo(S, n - 1) : Len(r) = n - 1},
                         x \in S}

ExtraStructures == SeqsUpTo(ExtraNodes, MaxExtra)

\* a node that populates every attribute group, in two versions that differ
\* in every attribute
FullNode(p, v) ==
    [ path |-> p,
      padding |-> [s \in {"top", "right", "bottom", "left"} |->
                      IF s \in {"top", "left"} THEN Some(8 * v) ELSE None],
      paddingTokens |-> [s \in {"top", "right", "bottom", "left"} |-> None],
      itemSpacing |-> Some(8 * v),
      itemSpacingToken |-> Some(IF v = 1 THEN "T1" ELSE "T2"),
      styles |-> [fill |-> Some(IF v = 1 THEN "S1" ELSE "S2"),
                  stroke |-> Some(IF v = 1 THEN "S1" ELSE "S2"),
                  text |-> IF v = 1 THEN Some("S1") ELSE None],
      fill |-> Some([color |-> Some(IF v = 1 THEN "c1" ELSE "c2"),
                     token |-> None]),
      stroke |-> Some([color |-> Some("c1"),
                       token |-> Some(IF v = 1 THEN "T1" ELSE "T2"),
                       weight |-> Some(v)]),
      radius |-> Some([kind |-> "number", all |-> 4 * v]),
      radiusToken |-> Some(IF v = 1 THEN "T1" ELSE "T2"),
      opacity |-> Some(500 * v),
      opacityToken |-> IF v = 1 THEN Some("T1") ELSE None ]

\* pairs (actual structure, reference structure) of such nodes on two paths,
\* in either order, the reference possibly with a path twice
FullStructures ==
    { <<FullNode("a", 2), FullNode("b", 2)>>,
      <<FullNode("b", 2), FullNode("a", 2)>>,
      <<FullNode("a", 2)>> }
    \X
    { <<FullNode("a", 1), FullNode("b", 1)>>,
      <<FullNode("b", 1), FullNode("a", 1)>>,
      <<FullNode("a", 2), FullNode("b", 1), FullNode("a", 1)>> }

\* the label callbacks a caller may pass: none, or three maps that may
\* send an id to a label (possibly one label for two ids) or to null
NoResolvers ==
    [ given |-> FALSE,
      token |-> [t \in Tokens |-> None],
      color |-> [c \in Colors |-> None],
      style |-> [k \in StyleKeys |-> None] ]

ResolverSet ==
    { NoResolvers,
      [ given |-> TRUE,
        token |-> [t \in Tokens |-> Some("Grey/900")],
        color |-> [c \in Colors |-> IF c = "c1" THEN Some("Grey/900")
                                                ELSE None],
        style |-> [k \in StyleKeys |-> Some("Body")] ],
      [ given |-> TRUE,
        token |-> [t \in Tokens |-> IF t = "T1" THEN Some("Grey/900")
                                                ELSE None],
        color |-> [c \in Colors |-> IF c = "c1" THEN Some("Grey/900")
                                                ELSE Some("Red/500")],
        style |-> [k \in StyleKeys |-> None] ] }

EmptyResult == [diffs |-> <<>>, issues |-> <<>>]

DiffInit ==
    /\ \/ \E pair \in NodePairs("a") : \E ea \in ExtraStructures :
          \E er \in ExtraStructures :
             /\ actual = <<pair[1]>> \o ea
             /\ reference = <<pair[2]>> \o er
       \/ \E full \in FullStructures :
             /\ actual = full[1]
             /\ reference = full[2]
    /\ strict \in BOOLEAN
    /\ resolvers \in ResolverSet
    /\ altResolvers \in ResolverSet
    /\ diffResult = EmptyResult
    /\ altResult = EmptyResult
    /\ diffPc = "start"

\* two calls of diffStructures over the same structures and strict flag,
\* one with each set of callbacks
DiffStructures ==
    /\ diffPc = "start"
    /\ diffResult' = diffStructures(actual, reference, strict, resolvers)
    /\ altResult' = diffStructures(actual, reference, strict, altResolvers)
    /\ diffPc' = "done"
    /\ UNCHANGED <<actual, reference, strict, resolvers, altResolvers>>
    /\ UNCHANGED <<resolveVars, snapshotVars, loadVars, auditVars, hydrateVars,
                 extractVars,
                 findVars>>

DiffNext == DiffStructures

-----------------------------------------------------------------------------
(***************************************************************************)
(* Catalog resolver: resolveStructure and buildStructureFromPatches        *)
(*                                                                         *)
(* Nodes are objects: a structure is a list of addresses into heap, so     *)
(* that a clone (new objects) differs from the list it was cloned from and *)
(* an in-place Object.assign is visible through every list that holds the  *)
(* object.                                                                 *)
(***************************************************************************)

MaxPatches == 3

MaxCalls == 2

\* the node values behind a list of addresses
Deref(h, addrs) == [i \in 1..Len(addrs) |-> h[addrs[i]]]

\* cloneNode: JSON.parse(JSON.stringify(node)) builds a new object holding
\* the node's (JSON) content; returns the heap with the new object last
cloneNode(h, node) == Append(h, node)

\* cloneStructure without the copy: the list of the very same objects
cloneStructureShared(h, addrs) == [heap |-> h, nodes |-> addrs]

\* cloneStructure: nodes.map(cloneNode)
cloneStructure(h, addrs) ==
    [ heap |-> h \o Deref(h, addrs),
      nodes |-> [i \in 1..Len(addrs) |-> Len(h) + i] ]

\* Object.assign(target, value): every own key of value overwrites the key
\* of target, whole value by whole value
ObjectAssign(target, value) ==
    [k \in DOMAIN target \cup DOMAIN value |->
        IF k \in DOMAIN value THEN value[k] ELSE target[k]]

\* Map.prototype.set on the id index
MapSet(m, id, addr) ==
    [x \in DOMAIN m \cup {id} |-> IF x = id THEN addr ELSE m[x]]

\* Map.prototype.delete on the id index
MapDelete(m, id) == [x \in DOMAIN m \ {id} |-> m[x]]

\* the id index built by the first loop of buildStructureFromPatches
RECURSIVE IndexNodes(_, _, _, _)
IndexNodes(h, nodes, m, i) ==
    IF i > Len(nodes) THEN m
    ELSE IndexNodes(h, nodes, MapSet(m, h[nodes[i]].id, nodes[i]), i + 1)

\* nodes.findIndex((node) => node.id === id), 0 for -1
findIndex(h, nodes, id) ==
    IF \E i \in 1..Len(nodes) : h[nodes[i]].id = id
    THEN CHOOSE i \in 1..Len(nodes) :
            /\ h[nodes[i]].id = id
            /\ \A j \in 1..(i - 1) : h[nodes[j]].id # id
    ELSE 0

\* nodes.splice(index, 1)
Splice(nodes, index) ==
    [i \in 1..(Len(nodes) - 1) |-> IF i < index THEN nodes[i] ELSE nodes[i + 1]]

\* one iteration of the loop over patches; st = [heap, nodes, nodeMap]
applyPatch(st, patch) ==
    CASE patch.op = "update" ->
            IF patch.id \in DOMAIN st.nodeMap
            THEN [st EXCEPT !.heap[st.nodeMap[patch.id]] =
                                ObjectAssign(@, patch.value)]
            ELSE st
      [] patch.op = "remove" ->
            LET index == findIndex(st.heap, st.nodes, patch.id)
            IN  [st EXCEPT !.nodeMap = MapDelete(@, patch.id),
                           !.nodes = IF index # 0 THEN Splice(@, index) ELSE @]
      [] patch.op = "add" ->
            LET h2 == cloneNode(st.heap, patch.node)
            IN  [ heap |-> h2,
                  nodes |-> Append(st.nodes, Len(h2)),
                  nodeMap |-> MapSet(st.nodeMap, patch.node.id, Len(h2)) ]

\* the state of buildStructureFromPatches after its first n patches
RECURSIVE buildState(_, _, _, _)
buildState(h, base, patches, n) ==
    IF n = 0
    THEN LET c == cloneStructure(h, base)
         IN  [ heap |-> c.heap, nodes |-> c.nodes,
               nodeMap |-> IndexNodes(c.heap, c.nodes, <<>>, 1) ]
    ELSE applyPatch(buildState(h, base, patches, n - 1), patches[n])

buildStructureFromPatches(h, base, patches) ==
    LET st == buildState(h, base, patches, Len(patches))
    IN  [heap |-> st.heap, result |-> Some(st.nodes)]

\* component.structure ?? []
StructureOrEmpty(c) == IF c.structure = None THEN <<>> ELSE c.structure[1]

\* variantKey && component.variantStructures &&
\* component.variantStructures[variantKey]  (an array, even empty, is truthy)
HasPatchList(c, variantKey) ==
    /\ Truthy(variantKey)
    /\ c.variantStructures # None
    /\ variantKey[1] \in DOMAIN c.variantStructures[1]

\* resolveStructure giving up on a requested variant that has no patch list
\* instead of falling back to the base structure
resolveStructureNoFallback(h, comp, variantKey) ==
    IF comp = None THEN [heap |-> h, result |-> None]
    ELSE LET c == comp[1]
         IN  IF HasPatchList(c, variantKey)
             THEN buildStructureFromPatches(h, StructureOrEmpty(c),
                      c.variantStructures[1][variantKey[1]])
             ELSE IF ~Truthy(variantKey)
                     /\ c.structure # None /\ Len(c.structure[1]) > 0
             THEN LET cl == cloneStructure(h, c.structure[1])
                  IN  [heap |-> cl.heap, result |-> Some(cl.nodes)]
             ELSE [heap |-> h, result |-> None]

resolveStructure(h, comp, variantKey) ==
    IF comp = None THEN [heap |-> h, result |-> None]
    ELSE LET c == comp[1]
         IN  IF HasPatchList(c, variantKey)
             THEN buildStructureFromPatches(h, StructureOrEmpty(c),
                      c.variantStructures[1][variantKey[1]])
             ELSE IF c.structure # None /\ Len(c.structure[1]) > 0
             THEN LET cl == cloneStructure(h, c.structure[1])
                  IN  [heap |-> cl.heap, result |-> Some(cl.nodes)]
             ELSE [heap |-> h, result |-> None]

(***************************************************************************)
(* Inputs of the resolver                                                  *)
(***************************************************************************)

BaseRoot == [id |-> 1, name |-> "root", opacity |-> None]

BaseChild == [id |-> 2, name |-> "child", opacity |-> Some(100)]

\* the patches a catalog may carry; an add may bring an id the base holds
PatchSet ==
    {[op |-> "update", id |-> i, value |-> v] :
        i \in {1, 2},
        v \in {[name |-> "renamed"], [opacity |-> Some(50)]}}
    \cup {[op |-> "remove", id |-> i] : i \in {1, 2}}
    \cup {[op |-> "add", node |-> [id |-> i, name |-> "added",
                                   opacity |-> None]] : i \in {1, 3}}

VariantKeys == {"A", "B"}

\* variantStructures values: no object at all, or an object holding a patch
\* list for "A" only, or for "A" and "B"
VariantStructuresSet ==
    {None}
    \cup {Some([k \in {"A"} |-> pl]) : pl \in SeqsUpTo(PatchSet, MaxPatches)}
    \cup {Some([k \in VariantKeys |-> IF k = "A" THEN pl ELSE <<>>]) :
            pl \in SeqsUpTo(PatchSet, 1)}

\* base structures: none, an empty list, one node, two nodes
InitialHeap == <<BaseRoot, BaseChild>>

BaseSet == {None, Some(<<>>), Some(<<1>>), Some(<<1, 2>>)}

ResolveInit ==
    /\ heap = InitialHeap
    /\ \/ component = None
       \/ \E b \in BaseSet : \E vs \in VariantStructuresSet :
            component = Some([ key |-> "K", variants |-> <<"A", "B">>,
                               structure |-> b, variantStructures |-> vs ])
    /\ calls = <<>>

BaseValue(h, comp) ==
    IF comp = None THEN None
    ELSE IF comp[1].structure = None THEN None
    ELSE Some(Deref(h, comp[1].structure[1]))

\* one call resolveStructure(component, variantKey); the call record keeps
\* what the caller can observe of it
ResolveStructure(variantKey) ==
    /\ Len(calls) < MaxCalls
    /\ LET r == resolveStructure(heap, component, variantKey)
       IN  /\ heap' = r.heap
           /\ calls' = Append(calls,
                 [ variantKey |-> variantKey,
                   result |-> r.result,
                   value |-> IF r.result = None THEN None
                             ELSE Some(Deref(r.heap, r.result[1])),
                   baseBefore |-> BaseValue(heap, component),
                   baseAfter |-> BaseValue(r.heap, component) ])
    /\ UNCHANGED component
    /\ UNCHANGED <<diffVars, snapshotVars, loadVars, auditVars, hydrateVars,
                 extractVars,
                 findVars>>

ResolveNext ==
    \E variantKey \in {None, Some("")} \cup {Some(k) : k \in VariantKeys} :
        ResolveStructure(variantKey)

DiffIdle ==
    /\ actual = <<>> /\ reference = <<>> /\ strict = FALSE
    /\ resolvers = NoResolvers /\ altResolvers = NoResolvers
    /\ diffResult = EmptyResult /\ altResult = EmptyResult
    /\ diffPc = "idle"

ResolveIdle ==
    /\ heap = <<>> /\ component = None /\ calls = <<>>

-----------------------------------------------------------------------------
(***************************************************************************)
(* Snapshot walk: snapshotTree                                             *)
(*                                                                         *)
(* A tree has nodes 1..n in document order; parent[i] < i is the parent of *)
(* node i (0 for the root) and the children of a node are visited in       *)
(* increasing order.  The walk of a node suspends in `await snapshotNode`: *)
(* for an INSTANCE node until the host settles getMainComponentAsync(), at *)
(* any later moment; for any other node for a fixed number of microtask    *)
(* turns, so that such walks resume in the order they were started.        *)
(***************************************************************************)

MaxTreeNodes == 4

NodeTypes == {"FRAME", "INSTANCE"}

RECURSIVE ParentSeqs(_)
ParentSeqs(n) ==
    IF n = 1 THEN {<<0>>}
    ELSE {Append(p, q) : p \in ParentSeqs(n - 1), q \in 1..(n - 1)}

\* a tree: for each node, in document order, its parent (0 for the root),
\* its type and its own visible flag
TreeSet ==
    UNION {{[parent |-> p, type |-> ty, visible |-> vis] :
               p \in ParentSeqs(n), ty \in [1..n -> NodeTypes],
               vis \in [1..n -> BOOLEAN]} :
           n \in 1..MaxTreeNodes}

\* node.children, in document order
RECURSIVE ChildrenFrom(_, _, _)
ChildrenFrom(t, node, i) ==
    IF i > Len(t.parent) THEN <<>>
    ELSE IF t.parent[i] = node THEN <<i>> \o ChildrenFrom(t, node, i + 1)
    ELSE ChildrenFrom(t, node, i + 1)

Children(t, node) == ChildrenFrom(t, node, 1)

\* the state of one snapshotTree call
NoWalk ==
    [nextId |-> 1, list |-> <<>>, microtasks |-> <<>>, hostCalls |-> {},
     rejected |-> {}]

\* getNodeSelfVisible: the node's own flag
getNodeSelfVisible(t, node) == t.visible[node]

\* effectiveVisible without the inheritance: the node's own flag alone
effectiveVisibleOwn(parentVisible, nodeVisible) == nodeVisible

\* const effectiveVisible = parentVisible && nodeVisible
effectiveVisible(parentVisible, nodeVisible) == parentVisible /\ nodeVisible

\* walk(): const id = nextId++, then the call of snapshotNode, which suspends
walkStart(st, t, node, parentId, parentVisible) ==
    LET task == [node |-> node, id |-> st.nextId, parentId |-> parentId,
                 visible |-> effectiveVisible(parentVisible,
                                              getNodeSelfVisible(t, node))]
    IN  IF t.type[node] = "INSTANCE"
        THEN [st EXCEPT !.nextId = @ + 1, !.hostCalls = @ \cup {task}]
        ELSE [st EXCEPT !.nextId = @ + 1, !.microtasks = Append(@, task)]

\* children.map((child) => walk(child, snap.path, id, ...)): the walks of
\* all children start, in order, before any of them resumes
RECURSIVE walkChildren(_, _, _, _, _)
walkChildren(st, t, kids, id, visible) ==
    IF kids = <<>> THEN st
    ELSE walkChildren(walkStart(st, t, Head(kids), Some(id), visible), t,
                      Tail(kids), id, visible)

\* list.push(snap) with the record at the front instead
pushSnapFront(list, snap) == <<snap>> \o list

\* list.push(snap)
pushSnap(list, snap) == Append(list, snap)

\* walk() from the return of snapshotNode on
walkResume(st, t, task) ==
    LET snap == [id |-> task.id, parentId |-> task.parentId,
                 node |-> task.node, visible |-> task.visible]
        pushed == [st EXCEPT !.list = pushSnap(@, snap)]
    IN  walkChildren(pushed, t, Children(t, task.node), task.id, snap.visible)

\* list.push(snap) has run for the node
Recorded(st, node) == \E i \in 1..Len(st.list) : st.list[i].node = node

\* a walk that does not await the walks of the children
awaitedWalksNone(t, node) == <<>>

\* await Promise.all(children.map((child) => walk(child, ...))): the walks
\* whose promises the walk of a node awaits before it returns
awaitedWalks(t, node) == Children(t, node)

\* the promise of walk(node) is fulfilled: its record is pushed and the
\* promise of every walk it awaits is fulfilled
RECURSIVE walkResolved(_, _, _)
walkResolved(st, t, node) ==
    /\ Recorded(st, node)
    /\ \A i \in 1..Len(awaitedWalks(t, node)) :
          walkResolved(st, t, awaitedWalks(t, node)[i])

WalkSettled(st) == st.microtasks = <<>> /\ st.hostCalls = {}

SnapshotInit ==
    /\ tree \in TreeSet
    /\ walk = NoWalk
    /\ snapPc = "idle"

\* snapshotTree(root) up to its first suspension
SnapshotTree ==
    /\ snapPc = "idle"
    /\ walk' = walkStart(NoWalk, tree, 1, None, TRUE)
    /\ snapPc' = "running"
    /\ UNCHANGED tree
    /\ UNCHANGED <<diffVars, resolveVars, loadVars, auditVars, hydrateVars,
                 extractVars,
                 findVars>>

\* the oldest suspended walk of a non-instance node resumes
RunMicrotask ==
    /\ snapPc = "running"
    /\ walk.microtasks # <<>>
    /\ LET st == walkResume([walk EXCEPT !.microtasks = Tail(@)], tree,
                            Head(walk.microtasks))
       IN  /\ walk' = st
           /\ snapPc' = IF walkResolved(st, tree, 1) THEN "done" ELSE "running"
    /\ UNCHANGED tree
    /\ UNCHANGED <<diffVars, resolveVars, loadVars, auditVars, hydrateVars,
                 extractVars,
                 findVars>>

\* the host settles getMainComponentAsync() of one instance node
HostResolves ==
    /\ snapPc = "running"
    /\ \E task \in walk.hostCalls :
          LET st == walkResume([walk EXCEPT !.hostCalls = @ \ {task}], tree, task)
          IN  /\ walk' = st
              /\ snapPc' = IF walkResolved(st, tree, 1) THEN "done" ELSE "running"
    /\ UNCHANGED tree
    /\ UNCHANGED <<diffVars, resolveVars, loadVars, auditVars, hydrateVars,
                 extractVars,
                 findVars>>

\* the host rejects getMainComponentAsync() of one instance node: the await
\* in extractInstance throws, nothing in snapshotNode or walk catches it, the
\* walk of the node rejects, and through the Promise.all of each ancestor so
\* does the promise of snapshotTree.  The walks still suspended go on, but
\* the list they push to is never returned.
HostRejects ==
    /\ snapPc = "running"
    /\ \E task \in walk.hostCalls :
          walk' = [walk EXCEPT !.hostCalls = @ \ {task},
                               !.rejected = @ \cup {task.node}]
    /\ snapPc' = "rejected"
    /\ UNCHANGED tree
    /\ UNCHANGED <<diffVars, resolveVars, loadVars, auditVars, hydrateVars,
                 extractVars,
                 findVars>>

SnapshotNext == SnapshotTree \/ RunMicrotask \/ HostResolves \/ HostRejects

SnapshotIdle ==
    /\ tree = [parent |-> <<0>>, type |-> <<"FRAME">>, visible |-> <<TRUE>>]
    /\ walk = NoWalk
    /\ snapPc = "idle"

-----------------------------------------------------------------------------
(***************************************************************************)
(* Catalog load guard: ensureReferenceCatalogsLoaded and loadAllCatalogs   *)
(*                                                                         *)
(* A run is one invocation of loadAllCatalogs.  Its position is the await  *)
(* it is suspended in; its fetches settle whenever the network decides,    *)
(* with success or failure.  The callback given to .finally() runs in a    *)
(* later turn than the one that settles the run.                           *)
(***************************************************************************)

MaxCallers == 3

MaxRuns == 2

Callers == 1..MaxCallers

Runs == 1..MaxRuns

\* the component catalog sources of the source list (fetched together by
\* Promise.all); one token catalog and one style catalog follow
ComponentSources == {"components-1", "components-2"}

\* the token catalog source and the style catalog source of the source list
TokenSource == "tokens-1"

StyleSource == "styles-1"

\* a run of loadAllCatalogs: its position, the outcome of its promise, and
\* the sources whose fetch or parse failed in it (failed) and whose content
\* it stored in catalogs, tokenCatalogs or styleCatalogs (loaded)
NewRun ==
    [pc |-> "unstarted", outcome |-> "pending", finallyRan |-> FALSE,
     failed |-> {}, loaded |-> {}]

NewCaller == [pc |-> "idle", got |-> None, during |-> {}, outcome |-> "pending"]

StartedRuns == 1..(nextRun - 1)

\* the runs of loadAllCatalogs that have not settled yet
InFlight == {r \in StartedRuns : runs[r].outcome = "pending"}

LoadInit ==
    /\ catalogLoadState = [ready |-> FALSE, promise |-> None]
    /\ catalogSources = FALSE
    /\ runs = [r \in Runs |-> NewRun]
    /\ nextRun = 1
    /\ fetches = {}
    /\ callers = [c \in Callers |-> NewCaller]

\* if (!catalogLoadState.promise) in ensureReferenceCatalogsLoaded,
\* left out: every caller that finds the catalogs not ready starts a load
startsLoadAlways == TRUE

\* if (!catalogLoadState.promise) in ensureReferenceCatalogsLoaded
startsLoad == catalogLoadState.promise = None

\* if (catalogLoadState.ready) left out: a call never returns early
alreadyReadyNever == FALSE

\* if (catalogLoadState.ready) in ensureReferenceCatalogsLoaded
alreadyReady == catalogLoadState.ready

\* one call of ensureReferenceCatalogsLoaded, up to its return of a promise;
\* a new run executes loadAllCatalogs up to its first await, the one of
\* ensureCatalogSourceList
EnsureReferenceCatalogsLoaded(c) ==
    /\ callers[c].pc = "idle"
    /\ IF alreadyReady
       THEN /\ callers' = [callers EXCEPT ![c] =
                   [@ EXCEPT !.pc = "returned", !.outcome = "fulfilled",
                             !.during = InFlight]]
            /\ UNCHANGED <<catalogLoadState, runs, nextRun>>
       ELSE IF startsLoad
       THEN /\ nextRun \in Runs
            /\ runs' = [runs EXCEPT ![nextRun].pc = "list"]
            /\ catalogLoadState' =
                   [catalogLoadState EXCEPT !.promise = Some(nextRun)]
            /\ callers' = [callers EXCEPT ![c] =
                   [@ EXCEPT !.pc = "waiting", !.got = Some(nextRun),
                             !.during = InFlight]]
            /\ nextRun' = nextRun + 1
       ELSE /\ callers' = [callers EXCEPT ![c] =
                   [@ EXCEPT !.pc = "waiting",
                             !.got = catalogLoadState.promise,
                             !.during = InFlight]]
            /\ UNCHANGED <<catalogLoadState, runs, nextRun>>
    /\ UNCHANGED <<catalogSources, fetches>>
    /\ UNCHANGED <<diffVars, resolveVars, snapshotVars, auditVars, hydrateVars,
                 extractVars,
                 findVars>>

\* ensureCatalogSourceList settles: the cached list, or the fetched list, or
\* a failed fetch, whose catch block throws on the missing fallback list;
\* on success the component fetches of Promise.all start
SourceListSettles(r, ok) ==
    /\ r \in StartedRuns
    /\ runs[r].pc = "list"
    /\ catalogSources => ok
    /\ IF ok
       THEN /\ catalogSources' = TRUE
            /\ runs' = [runs EXCEPT ![r].pc = "components"]
            /\ fetches' = fetches \cup {<<r, s>> : s \in ComponentSources}
       ELSE /\ runs' = [runs EXCEPT ![r].pc = "settled",
                                    ![r].outcome = "rejected"]
            /\ UNCHANGED <<catalogSources, fetches>>
    /\ UNCHANGED <<catalogLoadState, nextRun, callers>>
    /\ UNCHANGED <<diffVars, resolveVars, snapshotVars, auditVars, hydrateVars,
                 extractVars,
                 findVars>>

\* one fetchCatalogModule of a run settles.  The first failure rejects
\* Promise.all and with it the run, while the other fetches stay out; the
\* last success lets the run go on: hydrateCatalogs, then loadTokenCatalogs
ComponentFetchSettles(r, s, ok) ==
    /\ <<r, s>> \in fetches
    /\ fetches' = fetches \ {<<r, s>>}
    /\ IF runs[r].pc # "components"
       THEN UNCHANGED runs
       ELSE IF ~ok
       THEN runs' = [runs EXCEPT ![r].pc = "settled",
                                 ![r].outcome = "rejected",
                                 ![r].failed = @ \cup {s}]
       ELSE IF \A f \in fetches' : f[1] # r
       THEN runs' = [runs EXCEPT ![r].pc = "tokens",
                                 ![r].loaded = @ \cup ComponentSources]
       ELSE UNCHANGED runs
    /\ UNCHANGED <<catalogLoadState, catalogSources, nextRun, callers>>
    /\ UNCHANGED <<diffVars, resolveVars, snapshotVars, auditVars, hydrateVars,
                 extractVars,
                 findVars>>

\* the fetch of the token catalog settles; loadTokenCatalogs catches a
\* failure, and loadStyleCatalogs starts
TokenFetchSettles(r, ok) ==
    /\ r \in StartedRuns
    /\ runs[r].pc = "tokens"
    /\ runs' = [runs EXCEPT ![r].pc = "styles",
                             ![r].loaded = IF ok THEN @ \cup {TokenSource} ELSE @,
                             ![r].failed = IF ok THEN @ ELSE @ \cup {TokenSource}]
    /\ UNCHANGED <<catalogLoadState, catalogSources, nextRun, fetches, callers>>
    /\ UNCHANGED <<diffVars, resolveVars, snapshotVars, auditVars, hydrateVars,
                 extractVars,
                 findVars>>

\* the fetch of the style catalog settles; loadStyleCatalogs catches a
\* failure, and loadAllCatalogs sets ready and returns
StyleFetchSettles(r, ok) ==
    /\ r \in StartedRuns
    /\ runs[r].pc = "styles"
    /\ runs' = [runs EXCEPT ![r].pc = "settled", ![r].outcome = "fulfilled",
                             ![r].loaded = IF ok THEN @ \cup {StyleSource} ELSE @,
                             ![r].failed = IF ok THEN @ ELSE @ \cup {StyleSource}]
    /\ catalogLoadState' = [catalogLoadState EXCEPT !.ready = TRUE]
    /\ UNCHANGED <<catalogSources, nextRun, fetches, callers>>
    /\ UNCHANGED <<diffVars, resolveVars, snapshotVars, auditVars, hydrateVars,
                 extractVars,
                 findVars>>

\* the callback of .finally(): catalogLoadState.promise = null
FinallyCallback(r) ==
    /\ r \in StartedRuns
    /\ runs[r].pc = "settled"
    /\ ~runs[r].finallyRan
    /\ runs' = [runs EXCEPT ![r].finallyRan = TRUE]
    /\ catalogLoadState' = [catalogLoadState EXCEPT !.promise = None]
    /\ UNCHANGED <<catalogSources, nextRun, fetches, callers>>
    /\ UNCHANGED <<diffVars, resolveVars, snapshotVars, auditVars, hydrateVars,
                 extractVars,
                 findVars>>

\* the promise a caller was handed settles, after the .finally() callback,
\* with the outcome of the run it wraps
CallerSettles(c) ==
    /\ callers[c].pc = "waiting"
    /\ runs[callers[c].got[1]].finallyRan
    /\ callers' = [callers EXCEPT ![c] =
           [@ EXCEPT !.pc = "returned",
                     !.outcome = runs[callers[c].got[1]].outcome]]
    /\ UNCHANGED <<catalogLoadState, catalogSources, runs, nextRun, fetches>>
    /\ UNCHANGED <<diffVars, resolveVars, snapshotVars, auditVars, hydrateVars,
                 extractVars,
                 findVars>>

LoadNext ==
    \/ \E c \in Callers : EnsureReferenceCatalogsLoaded(c)
    \/ \E r \in Runs : \E ok \in BOOLEAN : SourceListSettles(r, ok)
    \/ \E r \in Runs : \E s \in ComponentSources : \E ok \in BOOLEAN :
          ComponentFetchSettles(r, s, ok)
    \/ \E r \in Runs : \E ok \in BOOLEAN : TokenFetchSettles(r, ok)
    \/ \E r \in Runs : \E ok \in BOOLEAN : StyleFetchSettles(r, ok)
    \/ \E r \in Runs : FinallyCallback(r)
    \/ \E c \in Callers : CallerSettles(c)

LoadIdle ==
    /\ catalogLoadState = [ready |-> FALSE, promise |-> None]
    /\ catalogSources = FALSE
    /\ runs = <<>>
    /\ nextRun = 1
    /\ fetches = {}
    /\ callers = <<>>

-----------------------------------------------------------------------------
(***************************************************************************)
(* The audit run: figma.ui.onmessage, runAudit, collectTargets,            *)
(* classifyNode and the reference structure cache                          *)
(***************************************************************************)

MaxTargets == 2

MaxAudits == 2

\* the catalog the audit looks components up in, in iteration order.  The
\* structures are lists of addresses into InitialHeap.
\*   1  declares variants A and B, holds a patch list for A only
\*   2  has no key of its own; declares variant C, holds no variantStructures
\*   3  as 2 (same displayName), declares variant D, whose patch list
\*      empties the structure
\*   4  declares no variants
AuditCatalog ==
    << [ key |-> Some("KX"), displayName |-> "Button", status |-> "update",
         variants |-> <<"A", "B">>, structure |-> Some(<<1>>),
         variantStructures |->
             Some([k \in {"A"} |->
                     <<[op |-> "update", id |-> 1,
                        value |-> [name |-> "renamed"]]>>]),
         corporate |-> TRUE ],
       [ key |-> None, displayName |-> "Card", status |-> "current",
         variants |-> <<"C">>, structure |-> Some(<<1, 2>>),
         variantStructures |-> None, corporate |-> FALSE ],
       [ key |-> None, displayName |-> "Card", status |-> "deprecated",
         variants |-> <<"D">>, structure |-> Some(<<2>>),
         variantStructures |->
             Some([k \in {"D"} |-> <<[op |-> "remove", id |-> 2]>>]),
         corporate |-> FALSE ],
       [ key |-> Some("KZ"), displayName |-> "Badge", status |-> "current",
         variants |-> <<>>, structure |-> Some(<<1, 2>>),
         variantStructures |-> None, corporate |-> FALSE ] >>

\* the component keys a node of the selection may resolve to: none, a
\* variant key, a component's own key, a key no catalog knows
ComponentKeys == {"A", "B", "C", "D", "KX", "KZ", "Q"}

\* the visible nodes collectTargets visits: instances, with the key of their
\* main component (null when the host gives none) and whether they carry
\* overrides, and frames
SelectionNodes ==
    [type : {"INSTANCE"},
     componentKey : {None} \cup {Some(k) : k \in ComponentKeys},
     overrides : BOOLEAN]
    \cup {[type |-> "FRAME", componentKey |-> None, overrides |-> FALSE]}

Selections == SeqsUpTo(SelectionNodes, MaxTargets)

\* component.variants?.some((variant) => variant.key === key)
HasVariant(c, key) == \E i \in 1..Len(c.variants) : c.variants[i] = key

\* findCatalogComponentByKey: the first component, in iteration order, whose
\* key or one of whose variants' keys is the key
findCatalogComponentByKey(key) ==
    IF ~Truthy(key) THEN None
    ELSE LET hits == {i \in 1..Len(AuditCatalog) :
                        \/ AuditCatalog[i].key = key
                        \/ HasVariant(AuditCatalog[i], key[1])}
         IN  IF hits = {} THEN None
             ELSE Some(CHOOSE i \in hits : \A j \in hits : i <= j)

\* the node values of a structure resolveStructure returned
StructureValue(r) ==
    IF r.result = None THEN None ELSE Some(Deref(r.heap, r.result[1]))

\* structure && structure.length > 0 ? structure : null
NonEmptyOrNull(structure) ==
    IF structure # None /\ Len(structure[1]) > 0 THEN structure ELSE None

\* getReferenceStructure: what resolveStructure gives when it is not empty
getReferenceStructure(ref, variantKey) ==
    IF ref = None THEN None
    ELSE NonEmptyOrNull(StructureValue(
             resolveStructure(InitialHeap, Some(AuditCatalog[ref[1]]),
                              variantKey)))

\* the cache key without its variant part
CacheKeyByComponent(ref, variantKey) ==
    << IF AuditCatalog[ref].key # None THEN AuditCatalog[ref].key[1]
       ELSE AuditCatalog[ref].displayName,
       "default" >>

\* `${ref.key ?? ref.displayName ?? 'unknown'}:${variantKey ?? 'default'}`,
\* kept as the pair of its two parts (no key or name here holds a colon)
CacheKey(ref, variantKey) ==
    << IF AuditCatalog[ref].key # None THEN AuditCatalog[ref].key[1]
       ELSE AuditCatalog[ref].displayName,
       IF variantKey # None THEN variantKey[1] ELSE "default" >>

\* cache.set(cacheKey, structure); return structure
CacheMiss(cache, cacheKey, structure) ==
    [ structure |-> structure,
      cache |-> [k \in DOMAIN cache \cup {cacheKey} |->
                   IF k = cacheKey THEN structure ELSE cache[k]],
      resolved |-> TRUE ]

\* getReferenceStructureCached from the computation of the cache key on
CacheLookup(ref, variantKey, cache, cacheKey) ==
    IF cacheKey \in DOMAIN cache
    THEN [structure |-> cache[cacheKey], cache |-> cache, resolved |-> FALSE]
    ELSE CacheMiss(cache, cacheKey, getReferenceStructure(ref, variantKey))

\* getReferenceStructureCached on the cache (a function from cache keys to
\* structures or null): the structure returned, the cache afterwards and
\* whether getReferenceStructure was called
getReferenceStructureCached(ref, variantKey, cache) ==
    IF ref = None
    THEN [structure |-> None, cache |-> cache, resolved |-> FALSE]
    ELSE CacheLookup(ref, variantKey, cache, CacheKey(ref[1], variantKey))

\* what diffStructures may return for a node that is diffed
DiffOutcomes ==
    { [diffs |-> <<>>, issues |-> <<>>],
      [diffs |-> <<"structure">>, issues |-> <<"no data in snapshot">>] }

\* the item of a node without a component key or without a catalog match
UnknownItem(node) ==
    [ componentKey |-> node.componentKey, reference |-> None,
      lookedUp |-> FALSE, resolved |-> FALSE, cached |-> None,
      referenceStructure |-> None, diffed |-> FALSE,
      diffs |-> <<>>, comparisonIssues |-> <<>>, isLocal |-> TRUE ]

\* the two checks of classifyNode left out: no issue is ever recorded
VariantIssueIgnored(c, componentKey, hasVariant) == None

\* the two checks of classifyNode on a component that declares variants:
\* the issue recorded, if any
VariantIssue(c, componentKey, hasVariant) ==
    IF Len(c.variants) = 0 THEN None
    ELSE IF ~hasVariant THEN Some("variant not found in catalog")
    ELSE IF c.variantStructures = None
            \/ componentKey \notin DOMAIN c.variantStructures[1]
         THEN Some("no variantStructures for variant")
    ELSE None

\* needsDiff && (ref?.status !== 'current' || instanceHasOverrides), where
\* the reference structure is null after an issue
ShouldDiff(c, node, lookup, issue) ==
    /\ issue = None
    /\ lookup.structure # None
    /\ c.status # "current" \/ node.overrides

\* the item classifyNode returns for a node with a catalog match
MatchedItem(node, ref, c, lookup, issue, shouldDiff, diffOutcome) ==
    [ componentKey |-> node.componentKey, reference |-> ref,
      lookedUp |-> TRUE, resolved |-> lookup.resolved,
      cached |-> lookup.structure,
      referenceStructure |-> IF issue # None THEN None ELSE lookup.structure,
      diffed |-> shouldDiff,
      diffs |-> (IF c.corporate THEN <<"theme">> ELSE <<>>)
                \o (IF shouldDiff THEN diffOutcome.diffs ELSE <<>>),
      comparisonIssues |->
          issue \o (IF shouldDiff THEN diffOutcome.issues ELSE <<>>),
      isLocal |-> FALSE ]

\* classifyNode from the variant checks on
classifyChecked(node, ref, c, lookup, issue, diffOutcome) ==
    [ item |-> MatchedItem(node, ref, c, lookup, issue,
                           ShouldDiff(c, node, lookup, issue), diffOutcome),
      cache |-> lookup.cache ]

\* classifyNode from the cache lookup on
classifyMatched(node, ref, c, cache, diffOutcome) ==
    classifyChecked(node, ref, c,
        getReferenceStructureCached(ref, node.componentKey, cache),
        VariantIssue(c, node.componentKey[1],
                     HasVariant(c, node.componentKey[1])),
        diffOutcome)

\* classifyNode from the catalog match on
classifyFound(node, ref, cache, diffOutcome) ==
    IF ~Truthy(node.componentKey) \/ ref = None
    THEN [item |-> UnknownItem(node), cache |-> cache]
    ELSE classifyMatched(node, ref, AuditCatalog[ref[1]], cache, diffOutcome)

\* classifyNode(node, referenceStructureCache) with snapshotTree and
\* diffStructures returning diffOutcome: the item and the cache afterwards
classifyNode(node, cache, diffOutcome) ==
    classifyFound(node, findCatalogComponentByKey(node.componentKey), cache,
                  diffOutcome)

\* a runAudit call: posted holds the messages it has posted; log holds the
\* scan-started, scan-finished and scan-cancelled messages posted to the UI
\* since the plugin started, by this call and the ones before it
NoAudit ==
    [ number |-> 0, pc |-> "idle", selection |-> <<>>, index |-> 1,
      cache |-> <<>>, items |-> <<>>, posted |-> <<>>,
      cancelSeen |-> FALSE, staleCancel |-> FALSE, checked |-> FALSE,
      notified |-> FALSE, log |-> <<>> ]

AuditInit ==
    /\ scanInProgress = FALSE
    /\ cancelRequested = FALSE
    /\ idleCancel = FALSE
    /\ audit = NoAudit

\* finalize(status) after the messages msgs were posted: the terminal
\* message, then scanInProgress = false and cancelRequested = false
Finalize(a, msgs, status) ==
    /\ audit' = [a EXCEPT !.pc = "ended",
                          !.posted = @ \o msgs \o
                              <<IF status = "cancelled" THEN "scan-cancelled"
                                ELSE "scan-finished">>,
                          !.log = Append(@,
                               IF status = "cancelled" THEN "scan-cancelled"
                               ELSE "scan-finished")]
    /\ scanInProgress' = FALSE
    /\ cancelRequested' = FALSE

\* the test of abortIfNeeded left out: the flag is never honoured
abortNever == FALSE

\* if (cancelRequested) in abortIfNeeded
abortNeeded == cancelRequested

\* the guard of runAudit left out: every scan-selection starts an audit
alreadyRunningNever == FALSE

\* if (scanInProgress) at the head of runAudit
alreadyRunning == scanInProgress

\* msg.type === 'scan-selection': runAudit() up to its first await, that of
\* ensureReferenceCatalogsLoaded
ScanSelection ==
    /\ IF alreadyRunning
       THEN /\ audit' = [audit EXCEPT !.notified = TRUE]
            /\ UNCHANGED <<scanInProgress, cancelRequested, idleCancel>>
       ELSE /\ audit.number < MaxAudits
            /\ audit' = [NoAudit EXCEPT !.number = audit.number + 1,
                                        !.pc = "loading",
                                        !.posted = <<"scan-started">>,
                                        !.staleCancel = idleCancel,
                                        !.log = Append(audit.log,
                                                       "scan-started")]
            /\ scanInProgress' = TRUE
            /\ cancelRequested' = FALSE
            /\ idleCancel' = FALSE
    /\ UNCHANGED <<diffVars, resolveVars, snapshotVars, loadVars,
                 hydrateVars,
                 extractVars,
                 findVars>>

\* msg.type === 'cancel-scan'
CancelScan ==
    /\ IF scanInProgress
       THEN /\ cancelRequested' = TRUE
            /\ audit' = [audit EXCEPT !.cancelSeen = TRUE]
            /\ UNCHANGED idleCancel
       ELSE /\ idleCancel' = TRUE
            /\ UNCHANGED <<cancelRequested, audit>>
    /\ UNCHANGED scanInProgress
    /\ UNCHANGED <<diffVars, resolveVars, snapshotVars, loadVars,
                 hydrateVars,
                 extractVars,
                 findVars>>

\* the three awaits of the catalogs and label maps settle; runAudit goes on
\* to read the selection, create the cache and start collectTargets, up to
\* the first await of the first visit
LoadSettles(ok, selection) ==
    /\ audit.pc = "loading"
    /\ IF ~ok
       THEN Finalize(audit, <<"scan-error">>, "finished")
       ELSE IF Len(selection) = 0
       THEN Finalize(audit, <<"scan-error">>, "finished")
       ELSE /\ audit' = [audit EXCEPT !.pc = "classify",
                                      !.selection = selection,
                                      !.index = 1, !.cache = <<>>]
            /\ UNCHANGED <<scanInProgress, cancelRequested>>
    /\ UNCHANGED idleCancel
    /\ UNCHANGED <<diffVars, resolveVars, snapshotVars, loadVars,
                 hydrateVars,
                 extractVars,
                 findVars>>

\* the end of runAudit once collectTargets has returned: the message for an
\* audit without items, the flag check, the result
AfterCollect(a) ==
    LET msgs == IF Len(a.items) = 0 THEN <<"scan-error">> ELSE <<>>
        b == [a EXCEPT !.checked = TRUE]
    IN  IF abortNeeded
        THEN Finalize(b, msgs, "cancelled")
        ELSE Finalize(b, msgs \o <<"scan-result">>, "finished")

\* the audit after the visit of node, whose classifyNode returned r
Visited(a, node, r) ==
    IF node.type = "INSTANCE"
    THEN [a EXCEPT !.index = @ + 1, !.cache = r.cache,
                   !.items = Append(@, r.item)]
    ELSE [a EXCEPT !.index = @ + 1]

\* runAudit from the end of a visit on
AfterVisit(visited) ==
    IF visited.index > Len(visited.selection)
    THEN AfterCollect(visited)
    ELSE /\ audit' = visited
         /\ UNCHANGED <<scanInProgress, cancelRequested>>

\* the visit of node, whose classifyNode returns r unless one of its awaits
\* rejects
VisitNode(node, r, settles, diffOutcome) ==
    /\ node.type # "INSTANCE" => settles
    /\ ~(node.type = "INSTANCE" /\ r.item.diffed)
          => diffOutcome = [diffs |-> <<>>, issues |-> <<>>]
    /\ IF ~settles
       THEN Finalize(audit, <<"scan-error">>, "finished")
       ELSE AfterVisit(Visited(audit, node, r))

\* the visit of the next node of the selection runs to its end: for an
\* instance classifyNode, whose awaits (getMainComponentAsync, snapshotTree)
\* settle or reject; a rejection ends runAudit in its catch block.  After
\* the last visit runAudit runs to its end.
Visit(settles, diffOutcome) ==
    /\ audit.pc = "classify"
    /\ VisitNode(audit.selection[audit.index],
                 classifyNode(audit.selection[audit.index], audit.cache,
                              diffOutcome),
                 settles, diffOutcome)
    /\ UNCHANGED idleCancel
    /\ UNCHANGED <<diffVars, resolveVars, snapshotVars, loadVars,
                 hydrateVars,
                 extractVars,
                 findVars>>

AuditNext ==
    \/ ScanSelection
    \/ CancelScan
    \/ \E ok \in BOOLEAN : \E selection \in Selections :
          LoadSettles(ok, selection)
    \/ \E settles \in BOOLEAN : \E diffOutcome \in DiffOutcomes :
          Visit(settles, diffOutcome)

AuditIdle ==
    /\ scanInProgress = FALSE
    /\ cancelRequested = FALSE
    /\ idleCancel = FALSE
    /\ audit = NoAudit

-----------------------------------------------------------------------------
(***************************************************************************)
(* Catalog hydration and validation: loadAllCatalogs after the component   *)
(* catalogs were fetched, hydrateCatalogs, validateCatalogComponent        *)
(***************************************************************************)

\* validationWarnings.slice(0, 50)
WarningCap == 50

MaxModules == 2

\* a catalog file holds one component or as many as the cap
ModuleSizes == {1, WarningCap}

TwoVariants == <<[key |-> Some("A"), name |-> Some("Primary")],
                 [key |-> Some("B"), name |-> Some("Ghost")]>>

\* what a component declares: its variants and, per variant key, whether
\* variantStructures holds a patch list (variantStructures may be absent)
ComponentShapes ==
    { [variants |-> <<>>, variantStructures |-> None],
      [variants |-> TwoVariants, variantStructures |-> Some({"A", "B"})],
      [variants |-> TwoVariants, variantStructures |-> Some({"A"})],
      [variants |-> TwoVariants, variantStructures |-> Some({})],
      [variants |-> TwoVariants, variantStructures |-> None],
      [variants |-> <<[key |-> Some("A"), name |-> None],
                      [key |-> None, name |-> Some("Draft")]>>,
       variantStructures |-> Some({})] }

\* a fetched catalog: `size` components of one shape
CatalogModules == [shape : ComponentShapes, size : ModuleSizes]

\* the i-th component of the m-th catalog
ComponentAt(mods, m, i) ==
    [name |-> <<m, i>>,
     variants |-> mods[m].shape.variants,
     variantStructures |-> mods[m].shape.variantStructures]

AllComponents(mods) ==
    UNION {{ComponentAt(mods, m, i) : i \in 1..mods[m].size} :
           m \in 1..Len(mods)}

\* variant?.key && !component.variantStructures?.[variant.key]
LacksPatchList(comp, variant) ==
    /\ Truthy(variant.key)
    /\ variant.key[1] \notin comp.variantStructures[1]

\* variant?.name ?? variant?.key ?? 'unknown'
VariantLabel(variant) ==
    IF variant.name # None THEN variant.name[1]
    ELSE IF variant.key # None THEN variant.key[1]
    ELSE "unknown"

\* component.variants.filter(...).map(...)
RECURSIVE missingVariantKeys(_, _, _)
missingVariantKeys(comp, variants, i) ==
    IF i > Len(variants) THEN <<>>
    ELSE (IF LacksPatchList(comp, variants[i])
          THEN <<VariantLabel(variants[i])>> ELSE <<>>)
         \o missingVariantKeys(comp, variants, i + 1)

IncompleteWarning(comp, fileName, missing) ==
    IF Len(missing) > 0
    THEN <<[text |-> "incomplete", component |-> comp.name,
            fileName |-> fileName, variants |-> missing]>>
    ELSE <<>>

\* one warning for each variant without patch list
validateCatalogComponentPerVariant(comp, fileName) ==
    IF Len(comp.variants) = 0 THEN <<>>
    ELSE IF comp.variantStructures = None
    THEN <<[text |-> "none", component |-> comp.name,
            fileName |-> fileName, variants |-> <<>>]>>
    ELSE LET missing == missingVariantKeys(comp, comp.variants, 1)
         IN  [i \in 1..Len(missing) |->
                 [text |-> "incomplete", component |-> comp.name,
                  fileName |-> fileName, variants |-> <<missing[i]>>]]

validateCatalogComponent(comp, fileName) ==
    IF Len(comp.variants) = 0 THEN <<>>
    ELSE IF comp.variantStructures = None
    THEN <<[text |-> "none", component |-> comp.name,
            fileName |-> fileName, variants |-> <<>>]>>
    ELSE IncompleteWarning(comp, fileName,
             missingVariantKeys(comp, comp.variants, 1))

\* the inner loop of hydrateCatalogs over components lo..hi of catalog m:
\* validationWarnings.push(...validateCatalogComponent(component, fileName))
RECURSIVE moduleWarnings(_, _, _, _)
moduleWarnings(mods, m, lo, hi) ==
    IF lo > hi THEN <<>>
    ELSE IF lo = hi THEN validateCatalogComponent(ComponentAt(mods, m, lo), m)
    ELSE moduleWarnings(mods, m, lo, (lo + hi) \div 2)
         \o moduleWarnings(mods, m, (lo + hi) \div 2 + 1, hi)

\* the outer loop of hydrateCatalogs over the catalogs
RECURSIVE collectWarnings(_, _)
collectWarnings(mods, m) ==
    IF m > Len(mods) THEN <<>>
    ELSE moduleWarnings(mods, m, 1, mods[m].size)
         \o collectWarnings(mods, m + 1)

\* console.warn of the first 50 warnings and of the number of the others
warnLines(warnings) ==
    IF Len(warnings) > WarningCap
    THEN SubSeq(warnings, 1, WarningCap)
         \o <<[text |-> "more", count |-> Len(warnings) - WarningCap]>>
    ELSE warnings

\* const modules = await Promise.all(componentSources.map(fetchCatalogModule))
CatalogsFetched(mods) ==
    /\ hydratePc = "idle"
    /\ modules' = mods
    /\ hydratePc' = "fetched"
    /\ UNCHANGED <<validationWarnings, console>>
    /\ UNCHANGED <<diffVars, resolveVars, snapshotVars, loadVars, auditVars,
                 extractVars,
                 findVars>>

\* hydrateCatalogs(modules)
HydrateCatalogs ==
    /\ hydratePc = "fetched"
    /\ validationWarnings' = collectWarnings(modules, 1)
    /\ console' = warnLines(collectWarnings(modules, 1))
    /\ hydratePc' = "hydrated"
    /\ UNCHANGED modules
    /\ UNCHANGED <<diffVars, resolveVars, snapshotVars, loadVars, auditVars,
                 extractVars,
                 findVars>>

\* the token and style catalogs are loaded, each failure caught, and
\* catalogLoadState.ready = true
LoadCompletes ==
    /\ hydratePc = "hydrated"
    /\ hydratePc' = "ready"
    /\ UNCHANGED <<modules, validationWarnings, console>>
    /\ UNCHANGED <<diffVars, resolveVars, snapshotVars, loadVars, auditVars,
                 extractVars,
                 findVars>>

HydrateNext ==
    \/ \E mods \in SeqsUpTo(CatalogModules, MaxModules) : CatalogsFetched(mods)
    \/ HydrateCatalogs
    \/ LoadCompletes

HydrateInit ==
    /\ modules = <<>>
    /\ hydratePc = "idle"
    /\ validationWarnings = <<>>
    /\ console = <<>>

HydrateIdle == HydrateInit

-----------------------------------------------------------------------------
(***************************************************************************)
(* Paint extraction of the snapshot: extractFillInfo, extractStrokeInfo,   *)
(* extractPaintVariableId                                                  *)
(***************************************************************************)

MaxPaints == 2

\* figma.mixed
Mixed == <<"figma", "mixed">>

\* boundVariables?.color of a paint: null, or the candidates id, variableId,
\* variable.id and variable.key in this order
ColorBindings ==
    { None,
      Some(<<Some("VariableID:1"), None, None, None>>),
      Some(<<None, Some("VariableID:2"), None, None>>),
      Some(<<None, None, None, Some("VariableID:1")>>) }

\* paints: channels and opacity in thousandths, opacity possibly undefined
Paints ==
    { [type |-> "SOLID", color |-> <<1000, 0, 0>>, opacity |-> None,
       visible |-> TRUE, binding |-> None],
      [type |-> "SOLID", color |-> <<1000, 0, 0>>, opacity |-> None,
       visible |-> TRUE,
       binding |-> Some(<<Some("VariableID:1"), None, None, None>>)],
      [type |-> "SOLID", color |-> <<0, 500, 1000>>, opacity |-> Some(333),
       visible |-> TRUE,
       binding |-> Some(<<None, Some("VariableID:2"), None, None>>)],
      [type |-> "GRADIENT_LINEAR", color |-> <<0, 0, 0>>, opacity |-> None,
       visible |-> TRUE,
       binding |-> Some(<<Some("VariableID:1"), None, None, None>>)],
      [type |-> "SOLID", color |-> <<0, 0, 0>>, opacity |-> None,
       visible |-> FALSE,
       binding |-> Some(<<None, None, None, Some("VariableID:1")>>)],
      [type |-> "SOLID", color |-> <<0, 0, 0>>, opacity |-> Some(0),
       visible |-> TRUE, binding |-> None] }

\* node.fills or node.strokes: absent, figma.mixed or an array of paints
PaintLists == {None, Mixed} \cup {Some(q) : q \in SeqsUpTo(Paints, MaxPaints)}

\* node.fillStyleId or node.strokeStyleId: absent or empty, figma.mixed, an id
StyleIds == {None, Mixed, Some("S:1")}

\* the part of a scene node that extractFillInfo (its fills and fillStyleId)
\* or extractStrokeInfo (its strokes, strokeStyleId and strokeWeight) reads
SceneNodes ==
    [paints : PaintLists, styleId : StyleIds, strokeWeight : {None, Some(0), Some(2)}]

\* Math.round(x * 255) of x given in thousandths
Round255(x) == (x * 255 + 500) \div 1000

\* Math.round(opacity * 100) / 100, in hundredths
Round100(x) == (x + 5) \div 10

\* `rgba(r,g,b,a)` of one paint, as its four numbers
Rgba(paint) ==
    << Round255(paint.color[1]), Round255(paint.color[2]),
       Round255(paint.color[3]),
       IF paint.opacity = None THEN 100 ELSE Round100(paint.opacity[1]) >>

\* paints.filter(...) on a test given as the set of paints that pass
RECURSIVE FilterPaints(_, _)
FilterPaints(paints, pass) ==
    IF paints = <<>> THEN <<>>
    ELSE (IF Head(paints) \in pass THEN <<Head(paints)>> ELSE <<>>)
         \o FilterPaints(Tail(paints), pass)

Solids == {p \in Paints : p.type = "SOLID"}

\* paint.visible !== false && (paint.opacity === undefined || paint.opacity > 0)
VisiblePaints ==
    {p \in Paints : p.visible /\ (p.opacity = None \/ p.opacity[1] > 0)}

\* solids.map(...).join(','): the list of the paints' rgba values
ColorOf(solids) == [i \in 1..Len(solids) |-> Rgba(solids[i])]

\* a || b || c || d over the candidates of a binding
RECURSIVE FirstTruthy(_)
FirstTruthy(candidates) ==
    IF candidates = <<>> THEN None
    ELSE IF Truthy(Head(candidates)) THEN Head(candidates)
    ELSE FirstTruthy(Tail(candidates))

\* the loop of extractPaintVariableId over an array of paints
RECURSIVE firstVariableId(_)
firstVariableId(paints) ==
    IF paints = <<>> THEN None
    ELSE IF Head(paints).type # "SOLID" \/ Head(paints).binding = None
         THEN firstVariableId(Tail(paints))
    ELSE IF FirstTruthy(Head(paints).binding[1]) # None
         THEN FirstTruthy(Head(paints).binding[1])
    ELSE firstVariableId(Tail(paints))

extractPaintVariableId(paints) ==
    IF paints = None \/ paints = Mixed THEN None
    ELSE firstVariableId(paints[1])

\* the style id when there is one and it is not figma.mixed, else null
StyleToken(styleId) ==
    IF styleId # None /\ styleId # Mixed /\ Truthy(styleId)
    THEN styleId ELSE None

\* const resolvedToken = token || variableToken
resolvedToken(token, variableToken) ==
    IF Truthy(token) THEN token ELSE variableToken

\* color || null
ColorOrNull(color) == IF color = <<>> THEN None ELSE Some(color)

extractFillInfo(node) ==
    IF node.paints = None \/ node.paints = Mixed THEN None
    ELSE IF FilterPaints(node.paints[1], Solids) = <<>> THEN None
    ELSE Some([color |->
                   ColorOrNull(ColorOf(FilterPaints(node.paints[1], Solids))),
               token |-> resolvedToken(StyleToken(node.styleId),
                             extractPaintVariableId(node.paints))])

extractStrokeInfo(node) ==
    IF node.paints = None \/ node.paints = Mixed THEN None
    ELSE IF \/ FilterPaints(node.paints[1], VisiblePaints) = <<>>
            \/ node.strokeWeight = None
            \/ node.strokeWeight[1] <= 0
         THEN None
    ELSE Some([color |->
                   ColorOrNull(ColorOf(FilterPaints(node.paints[1],
                                           Solids \cap VisiblePaints))),
               token |-> resolvedToken(StyleToken(node.styleId),
                             extractPaintVariableId(node.paints)),
               weight |-> node.strokeWeight[1]])

\* const fillInfo = extractFillInfo(node)
ExtractFill ==
    /\ extractPc = "start"
    /\ paintInfo' = extractFillInfo(sceneNode)
    /\ extractPc' = "fill"
    /\ UNCHANGED sceneNode
    /\ UNCHANGED <<diffVars, resolveVars, snapshotVars, loadVars, auditVars, hydrateVars,
                 findVars>>

\* const strokeInfo = extractStrokeInfo(node)
ExtractStroke ==
    /\ extractPc = "start"
    /\ paintInfo' = extractStrokeInfo(sceneNode)
    /\ extractPc' = "stroke"
    /\ UNCHANGED sceneNode
    /\ UNCHANGED <<diffVars, resolveVars, snapshotVars, loadVars, auditVars, hydrateVars,
                 findVars>>

ExtractNext == ExtractFill \/ ExtractStroke

ExtractInit ==
    /\ sceneNode \in SceneNodes
    /\ paintInfo = None
    /\ extractPc = "start"

ExtractIdle ==
    /\ sceneNode = [paints |-> None, styleId |-> None, strokeWeight |-> None]
    /\ paintInfo = None
    /\ extractPc = "start"

-----------------------------------------------------------------------------
(***************************************************************************)
(* Lookup of catalog components: prepareComponent's collectNames,          *)
(* findComponentByKeyOrName, findCatalogComponentByKey.  Names are          *)
(* sequences of characters.                                                *)
(***************************************************************************)

MaxLookups == 2

\* ' / '
Slash == <<" ", "/", " ">>

\* the components of the fetched catalogs, before prepareComponent
NamedComponents ==
    << [ key |-> Some("K1"), name |-> <<"B", "t">>,
         variants |-> <<[key |-> Some("V1"), name |-> <<"P">>],
                        [key |-> Some("V2"), name |-> <<"G", " ">>]>>,
         category |-> Some(<<"U", "i">>), pageName |-> Some(<<"P", "g">>) ],
       [ key |-> Some("K2"), name |-> <<" ", "T", "/", "b">>,
         variants |-> <<>>,
         category |-> None, pageName |-> None ] >>

\* the keys and the names a lookup is made with
LookupKeys == {None, Some(""), Some("K1"), Some("V2"), Some("K2"), Some("Q")}

LookupNames ==
    { <<>>, <<"b", "t">>, <<"B", "t">>, <<"p">>, <<"g">>, <<"u", "i">>,
      <<"b", "t">> \o Slash \o <<"p">>,
      <<"p", "g">> \o Slash \o <<"b", "t">>,
      <<"p", "g">> \o Slash \o <<"b", "t">> \o Slash \o <<"g">>,
      <<"t">> \o Slash \o <<"b">>,
      <<"T", "/", "b">>,
      <<"z">> }

\* value.toLowerCase(), on the letters in use
LowerChar(c) ==
    CASE c = "B" -> "b" [] c = "T" -> "t" [] c = "P" -> "p" [] c = "G" -> "g"
      [] c = "U" -> "u" [] OTHER -> c

toLowerCase(s) == [i \in 1..Len(s) |-> LowerChar(s[i])]

\* value.split('/'): the parts between the slashes
RECURSIVE SplitSlash(_, _, _)
SplitSlash(s, i, part) ==
    IF i > Len(s) THEN <<part>>
    ELSE IF s[i] = "/" THEN <<part>> \o SplitSlash(s, i + 1, <<>>)
    ELSE SplitSlash(s, i + 1, Append(part, s[i]))

RECURSIVE TrimStart(_)
TrimStart(s) ==
    IF s # <<>> /\ Head(s) = " " THEN TrimStart(Tail(s)) ELSE s

RECURSIVE TrimEnd(_)
TrimEnd(s) ==
    IF s # <<>> /\ s[Len(s)] = " " THEN TrimEnd(SubSeq(s, 1, Len(s) - 1))
    ELSE s

\* part.trim()
Trim(s) == TrimEnd(TrimStart(s))

\* parts.map((part) => part.trim()).filter(Boolean).join(' / ')
RECURSIVE JoinTrimmed(_, _)
JoinTrimmed(parts, acc) ==
    IF parts = <<>> THEN acc
    ELSE IF Trim(Head(parts)) = <<>> THEN JoinTrimmed(Tail(parts), acc)
    ELSE JoinTrimmed(Tail(parts),
                     IF acc = <<>> THEN Trim(Head(parts))
                     ELSE acc \o Slash \o Trim(Head(parts)))

normalizeName(value) ==
    toLowerCase(Trim(JoinTrimmed(SplitSlash(value, 1, <<>>), <<>>)))

\* aliases.add(alias) on a Set kept in insertion order
SetAdd(aliases, alias) ==
    IF \E i \in 1..Len(aliases) : aliases[i] = alias THEN aliases
    ELSE Append(aliases, alias)

RECURSIVE SetAddAll(_, _)
SetAddAll(aliases, more) ==
    IF more = <<>> THEN aliases
    ELSE SetAddAll(SetAdd(aliases, Head(more)), Tail(more))

\* the aliases buildNameAliases adds, before they are normalized
RawAliases(comp, variantName) ==
    (IF Truthy(variantName)
     THEN <<variantName[1], comp.name \o Slash \o variantName[1]>>
     ELSE <<comp.name>>)
    \o (IF Truthy(comp.category) THEN <<comp.category[1]>> ELSE <<>>)
    \o (IF ~Truthy(comp.pageName) THEN <<>>
        ELSE IF Truthy(variantName)
        THEN <<comp.pageName[1] \o Slash \o comp.name \o Slash
                   \o variantName[1]>>
        ELSE <<comp.pageName[1] \o Slash \o comp.name>>)

\* Array.from(aliases).map(normalizeName).filter(Boolean)
RECURSIVE NormalizeAll(_)
NormalizeAll(aliases) ==
    IF aliases = <<>> THEN <<>>
    ELSE (IF normalizeName(Head(aliases)) = <<>> THEN <<>>
          ELSE <<normalizeName(Head(aliases))>>)
         \o NormalizeAll(Tail(aliases))

buildNameAliases(comp, variantName) ==
    NormalizeAll(SetAddAll(<<>>, RawAliases(comp, variantName)))

RECURSIVE collectVariantNames(_, _, _)
collectVariantNames(comp, aliases, i) ==
    IF i > Len(comp.variants) THEN aliases
    ELSE collectVariantNames(comp,
             SetAddAll(aliases,
                       buildNameAliases(comp, Some(comp.variants[i].name))),
             i + 1)

collectNames(comp) ==
    collectVariantNames(comp, SetAddAll(<<>>, buildNameAliases(comp, None)), 1)

\* prepareComponent: libraryComponent.names = collectNames(component)
prepareComponent(comp) ==
    [ key |-> comp.key, displayName |-> comp.name,
      variants |-> comp.variants, names |-> collectNames(comp) ]

\* component.key === key || component.variants?.some(variant.key === key)
KeyMatches(c, key) ==
    \/ c.key = Some(key)
    \/ \E i \in 1..Len(c.variants) : c.variants[i].key = Some(key)

\* findCatalogComponentByKey over the prepared catalog: the first component,
\* in iteration order, that matches
RECURSIVE firstByKey(_, _, _)
firstByKey(cat, key, i) ==
    IF i > Len(cat) THEN None
    ELSE IF KeyMatches(cat[i], key) THEN Some(i)
    ELSE firstByKey(cat, key, i + 1)

findPreparedByKey(cat, key) ==
    IF ~Truthy(key) THEN None ELSE firstByKey(cat, key[1], 1)

\* findComponentByKeyOrName(key, name)
findComponentByKeyOrName(cat, key, name) ==
    IF Truthy(key) /\ findPreparedByKey(cat, key) # None
    THEN findPreparedByKey(cat, key)
    ELSE None

\* hydrateCatalogs: prepareComponent(component, module) for every component
PrepareComponents ==
    /\ findPc = "fetched"
    /\ library' = [i \in 1..Len(NamedComponents) |->
                      prepareComponent(NamedComponents[i])]
    /\ findPc' = "ready"
    /\ UNCHANGED lookups
    /\ UNCHANGED <<diffVars, resolveVars, snapshotVars, loadVars, auditVars, hydrateVars, extractVars>>

\* a call of findComponentByKeyOrName(key, name)
FindComponentByKeyOrName(key, name) ==
    /\ findPc = "ready"
    /\ Len(lookups) < MaxLookups
    /\ lookups' = Append(lookups,
                      [key |-> key, name |-> name,
                       result |-> findComponentByKeyOrName(library, key, name)])
    /\ UNCHANGED <<library, findPc>>
    /\ UNCHANGED <<diffVars, resolveVars, snapshotVars, loadVars, auditVars, hydrateVars, extractVars>>

FindNext ==
    \/ PrepareComponents
    \/ \E key \in LookupKeys, name \in LookupNames :
          FindComponentByKeyOrName(key, name)

FindInit ==
    /\ library = <<>>
    /\ lookups = <<>>
    /\ findPc = "fetched"

FindIdle == FindInit

-----------------------------------------------------------------------------
(***************************************************************************)
(* Specifications, one per subsystem                                       *)
(***************************************************************************)

vars == <<diffVars, resolveVars, snapshotVars, loadVars, auditVars,
          hydrateVars, extractVars, findVars>>

InitDiff == DiffInit /\ ResolveIdle /\ SnapshotIdle /\ LoadIdle /\ AuditIdle
    /\ HydrateIdle
    /\ ExtractIdle
    /\ FindIdle

SpecDiff == InitDiff /\ [][DiffNext]_vars

InitResolve == ResolveInit /\ DiffIdle /\ SnapshotIdle /\ LoadIdle /\ AuditIdle
    /\ HydrateIdle
    /\ ExtractIdle
    /\ FindIdle

SpecResolve == InitResolve /\ [][ResolveNext]_vars

InitSnapshot == SnapshotInit /\ DiffIdle /\ ResolveIdle /\ LoadIdle /\ AuditIdle
    /\ HydrateIdle
    /\ ExtractIdle
    /\ FindIdle

SpecSnapshot == InitSnapshot /\ [][SnapshotNext]_vars

InitLoad == LoadInit /\ DiffIdle /\ ResolveIdle /\ SnapshotIdle /\ AuditIdle
    /\ HydrateIdle
    /\ ExtractIdle
    /\ FindIdle

SpecLoad == InitLoad /\ [][LoadNext]_vars

InitAudit == AuditInit /\ DiffIdle /\ ResolveIdle /\ SnapshotIdle /\ LoadIdle
    /\ HydrateIdle
    /\ ExtractIdle
    /\ FindIdle

SpecAudit == InitAudit /\ [][AuditNext]_vars

InitHydrate == HydrateInit /\ DiffIdle /\ ResolveIdle /\ SnapshotIdle /\ LoadIdle
    /\ AuditIdle
    /\ ExtractIdle
    /\ FindIdle

SpecHydrate == InitHydrate /\ [][HydrateNext]_vars

InitExtract == ExtractInit
    /\ DiffIdle
    /\ ResolveIdle
    /\ SnapshotIdle
    /\ LoadIdle
    /\ AuditIdle
    /\ HydrateIdle
    /\ FindIdle

SpecExtract == InitExtract /\ [][ExtractNext]_vars

InitFind == FindInit
    /\ DiffIdle
    /\ ResolveIdle
    /\ SnapshotIdle
    /\ LoadIdle
    /\ AuditIdle
    /\ HydrateIdle
    /\ ExtractIdle

SpecFind == InitFind /\ [][FindNext]_vars

-----------------------------------------------------------------------------
(***************************************************************************)
(* Properties of the diff engine                                           *)
(***************************************************************************)

DiffDone == diffPc = "done"

HasIssue(result, attr, path) ==
    \E i \in 1..Len(result.issues) : result.issues[i] = <<attr, path>>

HasDiff(result, attr, path) ==
    \E i \in 1..Len(result.diffs) :
        result.diffs[i].attr = attr /\ result.diffs[i].nodePath = path

\* C1: a structure list compared against itself under strict mode gives
\* no diff entry and no issue, whatever label callbacks are passed.
C1_SelfDiffIsEmpty ==
    (DiffDone /\ strict /\ actual = reference)
        => (Len(diffResult.diffs) = 0 /\ Len(diffResult.issues) = 0)

HasPaint(p) == Truthy(PaintColor(p)) \/ Truthy(PaintToken(p))

\* the attributes the reference node r declares and the actual node a has
\* no value for
MissingAttrs(a, r) ==
    {"padding " \o sd : sd \in {x \in {"top", "right", "bottom", "left"} :
        r.padding[x] # None /\ a.padding[x] = None}}
    \cup
    {"token padding " \o sd : sd \in {x \in {"top", "right", "bottom", "left"} :
        Truthy(r.paddingTokens[x]) /\ ~Truthy(a.paddingTokens[x])}}
    \cup
    {"style " \o k : k \in {x \in {"fill", "stroke", "text"} :
        r.styles[x] # None /\ a.styles[x] = None}}
    \cup
    {x \in {"itemSpacing"} : r.itemSpacing # None /\ a.itemSpacing = None}
    \cup
    {x \in {"token itemSpacing"} :
        Truthy(r.itemSpacingToken) /\ ~Truthy(a.itemSpacingToken)}
    \cup
    {x \in {"fill"} : HasPaint(r.fill) /\ ~HasPaint(a.fill)}
    \cup
    {x \in {"stroke"} : HasPaint(r.stroke) /\ ~HasPaint(a.stroke)}
    \cup
    {x \in {"stroke weight"} :
        PaintWeight(r.stroke) # None /\ PaintWeight(a.stroke) = None}
    \cup
    {x \in {"radius"} : r.radius # None /\ a.radius = None}
    \cup
    {x \in {"token radius"} :
        Truthy(r.radiusToken) /\ ~Truthy(a.radiusToken)}
    \cup
    {x \in {"opacity"} : r.opacity # None /\ a.opacity = None}
    \cup
    {x \in {"token opacity"} :
        Truthy(r.opacityToken) /\ ~Truthy(a.opacityToken)}

\* the (actual, reference) node pairs diffStructures compares
ComparedPairs ==
    LET rm == MapOfNodes(reference, <<>>)
        am == MapOfNodes(actual, <<>>)
    IN  {<<MapGet(am, rm[i].path)[1], rm[i]>> :
            i \in {j \in 1..Len(rm) : MapGet(am, rm[j].path) # None}}

\* C2: under strict mode, an attribute the reference node declares and the
\* actual node at the same path has no value for is recorded as an issue
\* and produces no diff entry.
C2_MissingActualIsIssueNotDiff ==
    (DiffDone /\ strict) =>
        \A pr \in ComparedPairs : \A attr \in MissingAttrs(pr[1], pr[2]) :
            /\ HasIssue(diffResult, attr, pr[2].path)
            /\ ~HasDiff(diffResult, attr, pr[2].path)

\* what of a result does not depend on message text: the path and the
\* attribute of every diff entry, in order
DiffShape(result) ==
    [i \in 1..Len(result.diffs) |->
        <<result.diffs[i].nodePath, result.diffs[i].attr>>]

\* C3: two runs that differ only in the label callbacks give diff entries
\* for the same paths and attributes in the same order, and the same issues.
C3_ResolversOnlyChangeText ==
    DiffDone =>
        /\ DiffShape(diffResult) = DiffShape(altResult)
        /\ diffResult.issues = altResult.issues

-----------------------------------------------------------------------------
(***************************************************************************)
(* Properties of the catalog resolver                                      *)
(***************************************************************************)

\* the patch list resolveStructure uses for a call, when it uses one
PatchListOf(variantKey) == component[1].variantStructures[1][variantKey[1]]

UsesPatchList(variantKey) ==
    component # None /\ HasPatchList(component[1], variantKey)

\* the positions of a value list an id designates: its first node with the
\* id, its last one, or every one
Designated(nodes, id, reading) ==
    LET hits == {i \in 1..Len(nodes) : nodes[i].id = id}
    IN  IF hits = {} THEN {}
        ELSE IF reading = "first"
             THEN {CHOOSE i \in hits : \A j \in hits : i <= j}
        ELSE IF reading = "last"
             THEN {CHOOSE i \in hits : \A j \in hits : i >= j}
        ELSE hits

RECURSIVE DropAt(_, _, _)
DropAt(nodes, drop, i) ==
    IF i > Len(nodes) THEN <<>>
    ELSE IF i \in drop THEN DropAt(nodes, drop, i + 1)
    ELSE <<nodes[i]>> \o DropAt(nodes, drop, i + 1)

\* an in-order application of a patch list to a list of node values, written
\* without index or objects: update merges into the designated node, remove
\* deletes it, add appends
RECURSIVE ApplyInOrder(_, _, _)
ApplyInOrder(nodes, patches, reading) ==
    IF patches = <<>> THEN nodes
    ELSE LET p == Head(patches)
             next ==
                 CASE p.op = "update" ->
                        [i \in 1..Len(nodes) |->
                            IF i \in Designated(nodes, p.id, reading)
                            THEN [k \in DOMAIN nodes[i] \cup DOMAIN p.value |->
                                     IF k \in DOMAIN p.value THEN p.value[k]
                                     ELSE nodes[i][k]]
                            ELSE nodes[i]]
                   [] p.op = "remove" ->
                        DropAt(nodes, Designated(nodes, p.id, reading), 1)
                   [] p.op = "add" -> Append(nodes, p.node)
         IN  ApplyInOrder(next, Tail(patches), reading)

BaseOrEmpty(b) == IF b = None THEN <<>> ELSE b[1]

\* C4: repeated calls give deep-equal results; a result built from a patch
\* list equals an independent in-order application of the list to a copy of
\* the base (under some one reading of "the node with that id"); the base
\* structure is the same before and after each call.
C4_ResolveEqualsIndependentApply ==
    \A i \in 1..Len(calls) :
        /\ \A j \in 1..Len(calls) :
              calls[j].variantKey = calls[i].variantKey
                  => calls[j].value = calls[i].value
        /\ calls[i].baseAfter = calls[i].baseBefore
        /\ UsesPatchList(calls[i].variantKey) =>
              \E reading \in {"first", "last", "every"} :
                  calls[i].value =
                      Some(ApplyInOrder(BaseOrEmpty(calls[i].baseBefore),
                                        PatchListOf(calls[i].variantKey),
                                        reading))

\* the component declares variants A and B and holds a patch list for A only
DeclaresBWithoutPatches ==
    /\ component # None
    /\ component[1].variants = <<"A", "B">>
    /\ component[1].variantStructures # None
    /\ DOMAIN component[1].variantStructures[1] = {"A"}

\* C5 as stated: for a component with variants A and B and a patch list for
\* A only, resolveStructure(component, "B") returns null.
C5_MissingVariantGivesNull ==
    \A i \in 1..Len(calls) :
        (DeclaresBWithoutPatches /\ calls[i].variantKey = Some("B"))
            => calls[i].result = None

HasUsableBase ==
    /\ component # None
    /\ component[1].structure # None
    /\ Len(component[1].structure[1]) > 0

\* the result of a call is a deep clone of the base: equal content, and no
\* object shared with the base list
IsCloneOfBase(call) ==
    /\ call.result # None
    /\ call.value = call.baseBefore
    /\ \A a \in 1..Len(call.result[1]) : \A b \in 1..Len(component[1].structure[1]) :
          call.result[1][a] # component[1].structure[1][b]

\* C5 as amended: in that case resolveStructure(component, "B") returns a
\* deep clone of the base structure when the base is non-empty, and null
\* only when the component has no or an empty base structure.
C5_MissingVariantFallsBackToBase ==
    \A i \in 1..Len(calls) :
        (DeclaresBWithoutPatches /\ calls[i].variantKey = Some("B"))
            => IF HasUsableBase THEN IsCloneOfBase(calls[i])
               ELSE calls[i].result = None

C5_Witness ==
    \E i \in 1..Len(calls) :
        /\ DeclaresBWithoutPatches /\ calls[i].variantKey = Some("B")
        /\ HasUsableBase
        /\ calls[i].result # None
        /\ Len(calls[i].value[1]) = 2

\* C6: null is returned only when there is neither a usable base nor a patch
\* list for the requested key; without a key, or without a patch list for
\* it, the result is a deep clone of the (non-empty) base structure.
C6_NullOnlyWithoutBaseAndPatches ==
    \A i \in 1..Len(calls) :
        /\ calls[i].result = None
              => (~HasUsableBase /\ ~UsesPatchList(calls[i].variantKey))
        /\ (HasUsableBase /\ ~UsesPatchList(calls[i].variantKey))
              => IsCloneOfBase(calls[i])

\* no key, a patch-less key and a patched key have all been resolved: the
\* first two gave clones of the base, and an empty base with an empty patch
\* list gave an empty list rather than null
C6_Witness ==
    \/ \E i, j \in 1..Len(calls) :
          /\ HasUsableBase
          /\ calls[i].variantKey = None /\ calls[i].result # None
          /\ calls[j].variantKey = Some("A")
          /\ UsesPatchList(Some("A"))
          /\ calls[j].value # calls[i].value
    \/ \E i \in 1..Len(calls) :
          /\ ~HasUsableBase /\ UsesPatchList(calls[i].variantKey)
          /\ calls[i].result = Some(<<>>)

\* the address of the object the add patch at position i introduced
AddedAt(base, patches, i) == Len(buildState(heap, base, patches, i).heap)

\* the adds before position j that brought the id of patch j and whose node
\* is still in the list when patch j is applied
LiveAddsBefore(base, patches, j) ==
    {i \in 1..(j - 1) :
        /\ patches[i].op = "add"
        /\ patches[i].node.id = patches[j].id
        /\ \E n \in 1..Len(buildState(heap, base, patches, j - 1).nodes) :
              buildState(heap, base, patches, j - 1).nodes[n]
                  = AddedAt(base, patches, i)}

InList(st, addr) == \E i \in 1..Len(st.nodes) : st.nodes[i] = addr

\* C7 for one update or remove patch at position j of the list
PatchActsInOrder(base, patches, j) ==
    LET before == buildState(heap, base, patches, j - 1)
        after == buildState(heap, base, patches, j)
        adds == LiveAddsBefore(base, patches, j)
    IN  /\ adds # {} =>
              \E i \in adds :
                  LET added == AddedAt(base, patches, i)
                  IN  IF patches[j].op = "remove"
                      THEN ~InList(after, added)
                      ELSE after.heap[added] =
                              ObjectAssign(before.heap[added], patches[j].value)
        /\ (\A n \in 1..Len(before.nodes) :
                before.heap[before.nodes[n]].id # patches[j].id)
              => Deref(after.heap, after.nodes)
                    = Deref(before.heap, before.nodes)

\* C7: patches are applied in array order: an update or remove placed after
\* an add acts on the node that add introduced, and an update or remove of
\* an id absent at that moment changes nothing.
C7_LaterPatchesActOnAddedNode ==
    \A c \in 1..Len(calls) :
        UsesPatchList(calls[c].variantKey) =>
            LET patches == PatchListOf(calls[c].variantKey)
                base == StructureOrEmpty(component[1])
            IN  \A j \in 1..Len(patches) :
                    patches[j].op \in {"update", "remove"}
                        => PatchActsInOrder(base, patches, j)

-----------------------------------------------------------------------------
(***************************************************************************)
(* Properties of the snapshot walk                                         *)
(***************************************************************************)

\* the position of the record with a given id in the list, 0 if none
PositionOf(list, id) ==
    IF \E i \in 1..Len(list) : list[i].id = id
    THEN CHOOSE i \in 1..Len(list) : list[i].id = id
    ELSE 0

\* C8: every record with a non-null parentId has the record of that id
\* earlier in the list, and parentId < id, at every moment of every run.
C8_ParentEmittedEarlier ==
    \A i \in 1..Len(walk.list) :
        walk.list[i].parentId # None =>
            /\ PositionOf(walk.list, walk.list[i].parentId[1]) \in 1..(i - 1)
            /\ walk.list[i].parentId[1] < walk.list[i].id

\* the run in which every suspended walk resumes in the order it was started
RECURSIVE RunInStartOrder(_, _)
RunInStartOrder(st, t) ==
    IF st.microtasks = <<>> THEN st
    ELSE RunInStartOrder(
             walkResume([st EXCEPT !.microtasks = Tail(@)], t,
                        Head(st.microtasks)), t)

AllFrames(t) == [t EXCEPT !.type = [i \in 1..Len(t.type) |-> "FRAME"]]

StartOrderList(t) ==
    RunInStartOrder(walkStart(NoWalk, AllFrames(t), 1, None, TRUE),
                    AllFrames(t)).list

\* a finished run over a tree of depth two in which an instance resolved
\* late, so that the list is not in start order
C8_Witness ==
    /\ snapPc = "done"
    /\ Len(walk.list) = Len(tree.parent)
    /\ \E i \in 1..Len(walk.list) :
          /\ walk.list[i].parentId # None
          /\ walk.list[i].parentId[1] # 1
    /\ walk.list # StartOrderList(tree)

\* C9: for a given tree every run returns the same records, in the same
\* order, with the same ids (those of the run that resumes the walks in
\* start order), whatever order the host settles the resolutions in.
C9_SnapshotIsDeterministic ==
    snapPc = "done" => walk.list = StartOrderList(tree)

-----------------------------------------------------------------------------
(***************************************************************************)
(* Properties of the catalog load guard                                    *)
(***************************************************************************)

CatalogSourceNames == ComponentSources \cup {TokenSource, StyleSource}

\* C11: a run of loadAllCatalogs in which the fetch or parse of a catalog
\* source failed still fulfils, with the catalogs marked ready and every
\* source that did not fail loaded.
C11_FailedCatalogIsRecovered ==
    \A r \in StartedRuns :
        (runs[r].pc = "settled" /\ runs[r].failed # {})
            => /\ runs[r].outcome = "fulfilled"
               /\ catalogLoadState.ready
               /\ CatalogSourceNames \ runs[r].failed \subseteq runs[r].loaded

-----------------------------------------------------------------------------
(***************************************************************************)
(* Properties of the snapshot's error handling                             *)
(***************************************************************************)

\* C12: snapshotTree never fails because the main-component resolution of
\* an instance node was rejected: its promise does not reject, and when it
\* settles it returns a record for every node of the tree.
C12_NodeFailureDoesNotFailSnapshot ==
    walk.rejected # {} =>
        /\ snapPc # "rejected"
        /\ snapPc = "done" => Len(walk.list) = Len(tree.parent)

-----------------------------------------------------------------------------
(***************************************************************************)
(* Properties of the audit run                                             *)
(***************************************************************************)

Posted(type) == \E i \in 1..Len(audit.posted) : audit.posted[i] = type

LastPosted == audit.posted[Len(audit.posted)]

InstancesOf(selection) ==
    {i \in 1..Len(selection) : selection[i].type = "INSTANCE"}

\* C13: an audit that received a cancel-scan while in progress posts no
\* scan-result, and at its flag check, which it reaches only with every
\* visit of the selection completed, it ends with scan-cancelled; an audit
\* that received none, whatever cancel-scan arrived before it started, is
\* never cancelled.
C13_CancelHonouredAtFlagCheck ==
    /\ audit.cancelSeen => ~Posted("scan-result")
    /\ (audit.cancelSeen /\ audit.checked) =>
          /\ audit.pc = "ended"
          /\ LastPosted = "scan-cancelled"
    /\ audit.checked =>
          /\ audit.index = Len(audit.selection) + 1
          /\ Len(audit.items) = Cardinality(InstancesOf(audit.selection))
    /\ ~audit.cancelSeen => ~Posted("scan-cancelled")

\* a second audit, started after a cancel-scan that arrived while no audit
\* was in progress, was cancelled while it classified its nodes and ended
\* with scan-cancelled after both nodes were classified
C13_Witness ==
    /\ audit.number = 2
    /\ audit.staleCancel
    /\ audit.cancelSeen
    /\ audit.checked
    /\ Len(audit.items) >= 2
    /\ LastPosted = "scan-cancelled"

\* the declared-variant checks of classifyNode fail for the item: its
\* component declares variants and the node's key is none of them, or has
\* no patch list
VariantUnusable(item) ==
    /\ item.reference # None
    /\ LET c == AuditCatalog[item.reference[1]]
       IN  /\ Len(c.variants) > 0
           /\ \/ ~HasVariant(c, item.componentKey[1])
              \/ c.variantStructures = None
              \/ item.componentKey[1] \notin DOMAIN c.variantStructures[1]

\* C14: for a node whose catalog component declares variants and whose
\* component key is not a declared variant or has no patch list, the item
\* carries a comparison issue, a null reference structure and no structural
\* diff entry, and the audit goes on: every node of the selection is visited
\* and the audit ends without a scan-error.
C14_UnusableVariantIsSkipped ==
    \A i \in 1..Len(audit.items) :
        VariantUnusable(audit.items[i]) =>
            /\ Len(audit.items[i].comparisonIssues) = 1
            /\ audit.items[i].referenceStructure = None
            /\ ~audit.items[i].diffed
            /\ \A d \in 1..Len(audit.items[i].diffs) :
                  audit.items[i].diffs[d] # "structure"
            /\ audit.checked =>
                  /\ audit.index = Len(audit.selection) + 1
                  /\ ~Posted("scan-error")

\* an audit ended with its result after a node with an undeclared key (the
\* component's own key) and a node with a declared variant without patch
\* list, each followed to the next node
C14_Witness ==
    /\ audit.checked
    /\ Posted("scan-result")
    /\ Len(audit.items) >= 2
    /\ audit.items[1].componentKey = Some("KX")
    /\ audit.items[2].componentKey = Some("B")
    /\ VariantUnusable(audit.items[1])
    /\ VariantUnusable(audit.items[2])

-----------------------------------------------------------------------------
(***************************************************************************)
(* Further properties of the diff engine                                   *)
(***************************************************************************)

PathsOf(nodes) == {nodes[i].path : i \in 1..Len(nodes)}

\* the nodes of a structure whose path the reference holds
KnownTo(ref, nodes) ==
    LET Known(n) == n.path \in PathsOf(ref)
    IN  SelectSeq(nodes, Known)

\* nodes on a path of their own, to add to an actual structure
StrayNodes ==
    ExtraNodes \cup {[BlankNode("c") EXCEPT !.opacity = Some(1000)]}

\* C15: every diff entry names a path that both the reference and the
\* actual structure hold, and the result is the same without the actual
\* nodes whose path the reference lacks and with one more such node, added
\* at either end.
C15_OnlyReferencePathsCompared ==
    diffPc = "done" =>
        /\ \A i \in 1..Len(diffResult.diffs) :
              diffResult.diffs[i].nodePath
                  \in PathsOf(reference) \cap PathsOf(actual)
        /\ diffStructures(KnownTo(reference, actual), reference, strict,
                          resolvers) = diffResult
        /\ \A n \in StrayNodes :
              n.path \notin PathsOf(reference) =>
                  /\ diffStructures(Append(actual, n), reference, strict,
                                    resolvers) = diffResult
                  /\ diffStructures(<<n>> \o actual, reference, strict,
                                    resolvers) = diffResult

\* a run that produced a diff while the actual structure held a node on a
\* path the reference lacks, and the reference a path the actual lacks
C15_Witness ==
    /\ diffPc = "done"
    /\ Len(diffResult.diffs) > 0
    /\ PathsOf(actual) \ PathsOf(reference) # {}

\* both paints carry a token id and the two ids are equal
SameTokenId(a, r) ==
    /\ a # None /\ r # None
    /\ a[1].token # None /\ a[1].token # Some("")
    /\ a[1].token = r[1].token

\* C16: when the actual and the reference fill (or stroke) of a compared
\* node carry the same token id, the result holds no fill (or stroke) diff
\* for the node, whatever the colours and the label callbacks.
C16_EqualTokenIdsGiveNoPaintDiff ==
    DiffDone =>
        \A pr \in ComparedPairs :
            /\ SameTokenId(pr[1].fill, pr[2].fill)
                  => ~HasDiff(diffResult, "fill", pr[2].path)
            /\ SameTokenId(pr[1].stroke, pr[2].stroke)
                  => ~HasDiff(diffResult, "stroke", pr[2].path)

\* a run with label callbacks over fills that carry one token id and two
\* different colours
C16_Witness ==
    /\ DiffDone
    /\ resolvers.given
    /\ \E pr \in ComparedPairs :
          /\ SameTokenId(pr[1].fill, pr[2].fill)
          /\ pr[1].fill[1].color # pr[2].fill[1].color
          /\ pr[1].fill[1].color # None /\ pr[2].fill[1].color # None

\* C17: for a compared node whose reference declares a radius (and, under
\* strict mode, whose actual node has one), a radius diff is emitted exactly
\* when the two radii differ in representation (scalar or four-corner
\* record) or in a number; a scalar and a four-corner record always differ.
C17_RadiusComparedByRepresentation ==
    DiffDone =>
        \A pr \in ComparedPairs :
            (pr[2].radius # None /\ ~(strict /\ pr[1].radius = None)) =>
                (HasDiff(diffResult, "radius", pr[2].path)
                    <=> pr[1].radius # pr[2].radius)

\* a scalar 8 compared with a four-corner record of four 8s gave a radius
\* diff
C17_Witness ==
    /\ DiffDone
    /\ \E pr \in ComparedPairs :
          /\ pr[1].radius # None /\ pr[2].radius # None
          /\ pr[1].radius[1].kind = "number" /\ pr[1].radius[1].all = 8
          /\ pr[2].radius[1].kind = "corners"
          /\ pr[2].radius[1].topLeft = 8 /\ pr[2].radius[1].bottomLeft = 8
          /\ HasDiff(diffResult, "radius", pr[2].path)

-----------------------------------------------------------------------------
(***************************************************************************)
(* Properties of the snapshot records                                      *)
(***************************************************************************)

\* the node and its ancestors up to the snapshot root
RECURSIVE SelfAndAncestors(_, _)
SelfAndAncestors(t, node) ==
    IF node = 0 THEN {}
    ELSE {node} \cup SelfAndAncestors(t, t.parent[node])

\* C18: the visible flag of every record is true exactly when the node and
\* each of its ancestors up to the snapshot root is self-visible.
C18_VisibleIffAllAncestorsVisible ==
    \A i \in 1..Len(walk.list) :
        walk.list[i].visible
            <=> \A n \in SelfAndAncestors(tree, walk.list[i].node) :
                    tree.visible[n]

\* a finished snapshot with a self-visible node whose parent is self-visible
\* too and whose record is hidden by an ancestor further up, under a
\* visible root
C18_Witness ==
    /\ snapPc = "done"
    /\ \E i, j \in 1..Len(walk.list) :
          /\ tree.visible[walk.list[i].node]
          /\ tree.parent[walk.list[i].node] # 0
          /\ tree.visible[tree.parent[walk.list[i].node]]
          /\ ~walk.list[i].visible
          /\ walk.list[j].visible

-----------------------------------------------------------------------------
(***************************************************************************)
(* Properties of the catalog validation                                    *)
(***************************************************************************)

Hydrated == hydratePc \in {"hydrated", "ready"}

\* the component declares variants and some variant key has no patch list
HasMismatch(comp) ==
    \E i \in 1..Len(comp.variants) :
        /\ Truthy(comp.variants[i].key)
        /\ \/ comp.variantStructures = None
           \/ comp.variants[i].key[1] \notin comp.variantStructures[1]

\* the names of the variants whose key has no patch list
MissingLabels(comp) ==
    {VariantLabel(comp.variants[i]) :
        i \in {j \in 1..Len(comp.variants) :
                  /\ Truthy(comp.variants[j].key)
                  /\ \/ comp.variantStructures = None
                     \/ comp.variants[j].key[1]
                            \notin comp.variantStructures[1]}}

\* the positions of the warnings about the component in a list of lines
WarningsFor(lines, comp) ==
    {i \in 1..Len(lines) :
        lines[i].text # "more" /\ lines[i].component = comp.name}

NamedIn(line) == {line.variants[k] : k \in 1..Len(line.variants)}

\* the warning lines do not stop the load
LoadGoesOn == hydratePc = "hydrated" => ENABLED LoadCompletes

\* C19 as stated: every component that lacks a patch list for some of its
\* variant keys has exactly one emitted warning line, which names the
\* variants without patch list; at most WarningCap + 1 lines are emitted and
\* the load goes on.  It fails for a component without variantStructures
\* and for a component beyond the first WarningCap warnings.
C19_OneEmittedWarningNamingVariants ==
    Hydrated =>
        /\ \A comp \in AllComponents(modules) :
              HasMismatch(comp) =>
                  /\ Cardinality(WarningsFor(console, comp)) = 1
                  /\ \A i \in WarningsFor(console, comp) :
                        NamedIn(console[i]) = MissingLabels(comp)
        /\ Len(console) <= WarningCap + 1
        /\ LoadGoesOn

\* C19 (amended): every such component has exactly one warning in the list
\* hydrateCatalogs collects; the warning names exactly the variants without
\* patch list when the component has variantStructures and names none when
\* it has not; a component without mismatch has no warning; the lines
\* emitted are the first WarningCap warnings of the list followed, when there
\* are more, by one line giving their number, so never more than
\* WarningCap + 1 lines; and the load goes on.
C19_OneCollectedWarningPerComponent ==
    Hydrated =>
        /\ \A comp \in AllComponents(modules) :
              IF HasMismatch(comp)
              THEN /\ Cardinality(WarningsFor(validationWarnings, comp)) = 1
                   /\ \A i \in WarningsFor(validationWarnings, comp) :
                         IF comp.variantStructures = None
                         THEN /\ validationWarnings[i].text = "none"
                              /\ validationWarnings[i].variants = <<>>
                         ELSE /\ validationWarnings[i].text = "incomplete"
                              /\ NamedIn(validationWarnings[i])
                                     = MissingLabels(comp)
                              /\ Len(validationWarnings[i].variants)
                                     = Cardinality(MissingLabels(comp))
              ELSE WarningsFor(validationWarnings, comp) = {}
        /\ \A i \in 1..Len(console) :
              IF i <= WarningCap
              THEN console[i] = validationWarnings[i]
              ELSE console[i] = [text |-> "more",
                                 count |-> Len(validationWarnings) - WarningCap]
        /\ Len(console) = IF Len(validationWarnings) > WarningCap
                          THEN WarningCap + 1
                          ELSE Len(validationWarnings)
        /\ Len(console) <= WarningCap + 1
        /\ LoadGoesOn

\* a completed load with more warnings than the cap, among them one that
\* names the single variant without patch list and one about two variants
C19_Witness ==
    /\ hydratePc = "ready"
    /\ Len(validationWarnings) > WarningCap
    /\ Len(console) = WarningCap + 1
    /\ \E i, j \in 1..Len(validationWarnings) :
          /\ validationWarnings[i].variants = <<"Ghost">>
          /\ Len(validationWarnings[j].variants) = 2

\* the items of the run for which classifyNode looked the structure up
LookedUp == {i \in 1..Len(audit.items) : audit.items[i].lookedUp}

\* the (component, variant key) pair of a lookup
LookupPair(item) == <<item.reference[1], item.componentKey>>

LookupKey(item) == CacheKey(item.reference[1], item.componentKey)

\* C20: within one audit run every cached lookup returns what the uncached
\* lookup returns for its (component, variant key) pair; the first lookup
\* of a pair resolves it and no later one does; different pairs have
\* different cache entries; and the cache holds exactly the pairs looked up
\* in this run, so every run starts from an empty cache.
C20_CachedLookupEqualsUncached ==
    /\ \A i \in LookedUp :
          /\ audit.items[i].cached =
                 getReferenceStructure(audit.items[i].reference,
                                       audit.items[i].componentKey)
          /\ audit.items[i].resolved <=>
                 \A j \in LookedUp :
                     j < i => LookupPair(audit.items[j])
                                  # LookupPair(audit.items[i])
          /\ LookupKey(audit.items[i]) \in DOMAIN audit.cache
          /\ audit.cache[LookupKey(audit.items[i])] = audit.items[i].cached
    /\ \A i, j \in LookedUp :
          LookupPair(audit.items[i]) # LookupPair(audit.items[j])
              => LookupKey(audit.items[i]) # LookupKey(audit.items[j])
    /\ DOMAIN audit.cache = {LookupKey(audit.items[i]) : i \in LookedUp}

\* a second audit run in which the same pair was looked up twice, the second
\* time from the cache
C20_Witness ==
    /\ audit.number = 2
    /\ LookedUp = {1, 2}
    /\ LookupPair(audit.items[1]) = LookupPair(audit.items[2])
    /\ audit.items[1].resolved
    /\ ~audit.items[2].resolved
    /\ audit.items[2].cached # None

-----------------------------------------------------------------------------
(***************************************************************************)
(* Properties of the paint extraction                                      *)
(***************************************************************************)

\* C21: when a paint of the node is bound to a variable and the node has a
\* fill or stroke style id as well, the token of the extracted fill or stroke
\* is the id of the bound variable, not the style id.
C21_BoundVariableIsToken ==
    /\ extractPc \in {"fill", "stroke"}
    /\ paintInfo # None
    /\ extractPaintVariableId(sceneNode.paints) # None
    /\ StyleToken(sceneNode.styleId) # None
    => paintInfo[1].token = extractPaintVariableId(sceneNode.paints)

-----------------------------------------------------------------------------
(***************************************************************************)
(* Properties of the component lookup                                      *)
(***************************************************************************)

\* the components the key finds: by their own key or by a variant's key
FoundByKey(key) ==
    {i \in 1..Len(library) : Truthy(key) /\ KeyMatches(library[i], key[1])}

\* the components one of whose alias names is the normalized name
FoundByAlias(name) ==
    {i \in 1..Len(library) :
        \E k \in 1..Len(library[i].names) :
            library[i].names[k] = normalizeName(name)}

\* C22: a lookup finds a component whose key or one of whose variants' keys
\* is the key given; when no key is given or no key matches, it finds a
\* component one of whose normalized alias names is the name given; and it
\* finds nothing otherwise.
C22_FoundByKeyOrAliasName ==
    \A n \in 1..Len(lookups) :
        IF FoundByKey(lookups[n].key) # {}
        THEN /\ lookups[n].result # None
             /\ lookups[n].result[1] \in FoundByKey(lookups[n].key)
        ELSE IF FoundByAlias(lookups[n].name) # {}
        THEN /\ lookups[n].result # None
             /\ lookups[n].result[1] \in FoundByAlias(lookups[n].name)
        ELSE lookups[n].result = None

-----------------------------------------------------------------------------
(***************************************************************************)
(* Properties of the layout comparison                                     *)
(***************************************************************************)

PaddingSides == {"top", "right", "bottom", "left"}

\* the number of diff entries of a result for an attribute of a path
DiffCount(result, attr, path) ==
    Cardinality({i \in 1..Len(result.diffs) :
                    result.diffs[i].attr = attr
                    /\ result.diffs[i].nodePath = path})

IssueCount(result, attr, path) ==
    Cardinality({i \in 1..Len(result.issues) :
                    result.issues[i] = <<attr, path>>})

\* the entries of a result for an attribute of a path: <<diffs, issues>>
Entries(result, attr, path) ==
    <<DiffCount(result, attr, path), IssueCount(result, attr, path)>>

\* what C23 says of one side of a compared pair: the entries for the side's
\* value and for the side's token
PaddingSideAsClaimed(a, r, sd) ==
    LET value == Entries(diffResult, "padding " \o sd, r.path)
        token == Entries(diffResult, "token padding " \o sd, r.path)
    IN  IF strict /\ a.padding[sd] = None
        THEN value = <<0, 1>> /\ token = <<0, 0>>
        ELSE IF a.padding[sd] # r.padding[sd]
        THEN value = <<1, 0>> /\ token = <<0, 0>>
        ELSE IF ~Truthy(r.paddingTokens[sd])
        THEN value = <<0, 0>> /\ token = <<0, 0>>
        ELSE IF strict /\ ~Truthy(a.paddingTokens[sd])
        THEN value = <<0, 0>> /\ token = <<0, 1>>
        ELSE IF a.paddingTokens[sd] # r.paddingTokens[sd]
        THEN value = <<0, 0>> /\ token = <<1, 0>>
        ELSE value = <<0, 0>> /\ token = <<0, 0>>

\* C23: for every padding side whose reference value is not null there is at
\* most one entry: under strict mode a missing actual value gives one issue
\* for the side and no diff; otherwise a different value gives one value
\* diff; the token is compared only when the values are equal and the
\* reference pins a token, giving one token diff on mismatch, or under strict
\* mode one issue when the actual token is missing.
C23_PaddingSideGivesAtMostOneEntry ==
    DiffDone =>
        \A pr \in ComparedPairs : \A sd \in PaddingSides :
            pr[2].padding[sd] # None =>
                PaddingSideAsClaimed(pr[1], pr[2], sd)

\* a strict run that reported the missing actual token of a side whose
\* values are equal
C23_Witness ==
    /\ DiffDone
    /\ strict
    /\ \E pr \in ComparedPairs :
          /\ pr[2].padding["top"] # None
          /\ pr[1].padding["top"] = pr[2].padding["top"]
          /\ Truthy(pr[2].paddingTokens["top"])
          /\ HasIssue(diffResult, "token padding top", pr[2].path)
          /\ ~HasDiff(diffResult, "token padding top", pr[2].path)

\* C24: the item-spacing token is compared only when the item-spacing values
\* matched: no compared node has both an entry (diff or issue) for the
\* item-spacing value and an entry for the item-spacing token.
C24_ItemSpacingIsTwoStage ==
    DiffDone =>
        \A pr \in ComparedPairs :
            Entries(diffResult, "itemSpacing", pr[2].path) # <<0, 0>>
                => Entries(diffResult, "token itemSpacing", pr[2].path)
                       = <<0, 0>>

-----------------------------------------------------------------------------
(***************************************************************************)
(* Properties of the radius comparison                                     *)
(***************************************************************************)

\* the positions of the diff entries of the run for an attribute of a path
DiffPositions(attr, path) ==
    {i \in 1..Len(diffResult.diffs) :
        diffResult.diffs[i].attr = attr
        /\ diffResult.diffs[i].nodePath = path}

\* the token entry precedes the value diff of the same node
TokenPrecedesValue(path) ==
    \A i \in DiffPositions("token radius", path) :
        \A j \in DiffPositions("radius", path) : i < j

\* C25 as stated: when the reference pins a radius token and the actual
\* node has a different radius token, there is one token diff entry whatever
\* the radius values are (equal, different or absent), placed before the
\* radius value diff of the node.  It fails when the reference has no radius
\* and, under strict mode, when the actual node has none.
C25_RadiusTokenDiffWhateverTheValues ==
    DiffDone =>
        \A pr \in ComparedPairs :
            (/\ Truthy(pr[2].radiusToken)
             /\ Truthy(pr[1].radiusToken)
             /\ pr[1].radiusToken # pr[2].radiusToken)
            => /\ Entries(diffResult, "token radius", pr[2].path) = <<1, 0>>
               /\ TokenPrecedesValue(pr[2].path)

\* C25 (amended): when the reference pins a radius token, has a radius, and
\* the actual node has a radius or the mode is not strict, a different actual
\* token gives one token diff entry, whether the radius values are equal or
\* different (or the actual radius absent), and the entry precedes the
\* radius value diff of the node; under strict mode a missing actual token
\* gives one issue instead.  When the reference has no radius, or under
\* strict mode the actual node has none, there is no entry for the token.
C25_RadiusTokenDiffWhenRadiusCompared ==
    DiffDone =>
        \A pr \in ComparedPairs :
            Truthy(pr[2].radiusToken) =>
                /\ Entries(diffResult, "token radius", pr[2].path) =
                       IF pr[2].radius = None THEN <<0, 0>>
                       ELSE IF strict /\ pr[1].radius = None THEN <<0, 0>>
                       ELSE IF strict /\ ~Truthy(pr[1].radiusToken)
                       THEN <<0, 1>>
                       ELSE IF pr[1].radiusToken # pr[2].radiusToken
                       THEN <<1, 0>>
                       ELSE <<0, 0>>
                /\ TokenPrecedesValue(pr[2].path)

\* a run that reported a radius token diff and, after it, a radius value
\* diff for the same node
C25_Witness ==
    /\ DiffDone
    /\ \E pr \in ComparedPairs :
          /\ Truthy(pr[1].radiusToken)
          /\ DiffPositions("token radius", pr[2].path) # {}
          /\ DiffPositions("radius", pr[2].path) # {}

-----------------------------------------------------------------------------
(***************************************************************************)
(* Properties of the order of the diff entries                             *)
(***************************************************************************)

\* the place of a path in the reference structure: that of its first node
PathRank(path) ==
    CHOOSE k \in 1..Len(reference) :
        /\ reference[k].path = path
        /\ \A m \in 1..(k - 1) : reference[m].path # path

\* the place of an attribute in the order of the checks
AttrRank(attr) ==
    CASE attr \in {"padding top", "token padding top"} -> 1
      [] attr \in {"padding right", "token padding right"} -> 2
      [] attr \in {"padding bottom", "token padding bottom"} -> 3
      [] attr \in {"padding left", "token padding left"} -> 4
      [] attr = "itemSpacing" -> 5
      [] attr = "token itemSpacing" -> 6
      [] attr = "style fill" -> 7
      [] attr = "style stroke" -> 8
      [] attr = "style text" -> 9
      [] attr = "fill" -> 10
      [] attr = "stroke" -> 11
      [] attr = "stroke weight" -> 12
      [] attr = "token radius" -> 13
      [] attr = "radius" -> 14
      [] attr = "token opacity" -> 15
      [] attr = "opacity" -> 16

EntryBefore(d, e) ==
    \/ PathRank(d.nodePath) < PathRank(e.nodePath)
    \/ /\ d.nodePath = e.nodePath
       /\ AttrRank(d.attr) < AttrRank(e.attr)

\* C26: the diff entries are ordered by reference path, in the order in which
\* the paths first occur in the reference structure, and within a path by the
\* fixed order of the attribute checks; hence the entries of a path are
\* contiguous.
C26_DiffsOrderedByPathThenAttribute ==
    DiffDone =>
        \A i, j \in 1..Len(diffResult.diffs) :
            i < j => EntryBefore(diffResult.diffs[i], diffResult.diffs[j])

\* a run over two paths, the second path of the reference structure being
\* the first of the actual one, with entries for radius and opacity on both
C26_Witness ==
    /\ DiffDone
    /\ Len(reference) = 3
    /\ actual[1].path # reference[1].path
    /\ \A p \in {"a", "b"} :
          /\ DiffPositions("radius", p) # {}
          /\ DiffPositions("opacity", p) # {}
          /\ DiffPositions("padding top", p) # {}

-----------------------------------------------------------------------------
(***************************************************************************)
(* Properties of the id index of buildStructureFromPatches                 *)
(***************************************************************************)

\* the objects the id index holds, and the objects the ordered list holds
IndexedNodes(st) == {st.nodeMap[id] : id \in DOMAIN st.nodeMap}

ListedNodes(st) == {st.nodes[i] : i \in 1..Len(st.nodes)}

NoIdTwice(st) ==
    \A i, j \in 1..Len(st.nodes) :
        i # j => st.heap[st.nodes[i]].id # st.heap[st.nodes[j]].id

\* C27 for the state after the first n patches of a list
IndexAndListInSync(base, patches, n) ==
    LET st == buildState(heap, base, patches, n)
    IN  /\ IndexedNodes(st) = ListedNodes(st)
        /\ NoIdTwice(st)
        /\ (n > 0 /\ patches[n].op = "remove") =>
              \A i \in 1..Len(st.nodes) :
                  st.heap[st.nodes[i]].id # patches[n].id

\* C27: after each patch of a patch list the id index and the ordered list
\* hold the same set of nodes, no id occurs twice in the list, and a remove
\* leaves no node with its id in the list.
C27_IndexAndListHoldSameNodes ==
    \A c \in 1..Len(calls) :
        UsesPatchList(calls[c].variantKey) =>
            LET patches == PatchListOf(calls[c].variantKey)
                base == StructureOrEmpty(component[1])
            IN  \A n \in 0..Len(patches) :
                    IndexAndListInSync(base, patches, n)

-----------------------------------------------------------------------------
(***************************************************************************)
(* Properties of the completion of the snapshot walk                       *)
(***************************************************************************)

TreeNodes == 1..Len(tree.parent)

\* the nodes strictly below a node
Descendants(node) ==
    {d \in TreeNodes : d # node /\ node \in SelfAndAncestors(tree, d)}

\* the walk of the node is suspended in its await of snapshotNode
ExtractionPending(node) ==
    \/ \E i \in 1..Len(walk.microtasks) : walk.microtasks[i].node = node
    \/ \E task \in walk.hostCalls : task.node = node

RecordsOf(node) == {i \in 1..Len(walk.list) : walk.list[i].node = node}

\* C28: the walk of a node is complete only when every node below it has
\* its record and no extraction below it is pending; when snapshotTree
\* resolves the list holds exactly one record per node of the tree and no
\* extraction is pending.
C28_WalkCompletesAfterItsChildren ==
    /\ \A node \in TreeNodes :
          (snapPc # "idle" /\ walkResolved(walk, tree, node)) =>
              \A d \in Descendants(node) :
                  Recorded(walk, d) /\ ~ExtractionPending(d)
    /\ snapPc = "done" =>
          /\ \A node \in TreeNodes : Cardinality(RecordsOf(node)) = 1
          /\ Len(walk.list) = Len(tree.parent)
          /\ WalkSettled(walk)

\* snapshotTree has resolved for a tree with an instance two levels below
\* the root, next to a second child of the root
C28_Witness ==
    /\ snapPc = "done"
    /\ tree.parent = <<0, 1, 2, 1>>
    /\ tree.type[3] = "INSTANCE"
    /\ walk.list[4].node = 3

-----------------------------------------------------------------------------
(***************************************************************************)
(* Properties of the messages that open and close an audit                 *)
(***************************************************************************)

TerminalMessages == {"scan-finished", "scan-cancelled"}

\* the audit is suspended in an await whose settling lets it go on: the
\* one of the catalogs, or the one of the visit of a node of the selection
AtAwait ==
    \/ audit.pc = "loading"
    \/ audit.pc = "classify" /\ audit.index \in 1..Len(audit.selection)

\* C29: the scan-started and terminal messages posted to the UI alternate,
\* starting with scan-started; an audit is in progress exactly between its
\* scan-started and its terminal message, where it is suspended in an await
\* and goes on once that settles; after the terminal message scanInProgress
\* and cancelRequested are false.
C29_StartedAndTerminalAlternate ==
    /\ \A i \in 1..Len(audit.log) :
          IF i % 2 = 1 THEN audit.log[i] = "scan-started"
          ELSE audit.log[i] \in TerminalMessages
    /\ Len(audit.log) \in {2 * audit.number - 1, 2 * audit.number}
    /\ scanInProgress <=> Len(audit.log) % 2 = 1
    /\ scanInProgress <=> AtAwait
    /\ ~scanInProgress <=> audit.pc \in {"idle", "ended"}
    /\ ~scanInProgress => ~cancelRequested

\* a first audit was cancelled; the second one, which received a
\* scan-selection while in progress, ended on a rejected await after it had
\* classified a node
C29_Witness ==
    /\ audit.log = <<"scan-started", "scan-cancelled",
                     "scan-started", "scan-finished">>
    /\ audit.notified
    /\ audit.posted = <<"scan-started", "scan-error", "scan-finished">>
    /\ Len(audit.items) = 1

-----------------------------------------------------------------------------
(***************************************************************************)
(* Properties of the catalog load state                                    *)
(***************************************************************************)

\* the phase of the catalog load state
LoadPhase(state) ==
    IF state.ready THEN "ready"
    ELSE IF state.promise = None THEN "idle"
    ELSE "loading"

PhaseSteps ==
    { <<"idle", "loading">>, <<"loading", "ready">>, <<"loading", "idle">> }

\* the runs of loadAllCatalogs that called hydrateCatalogs
HydratingRuns == {r \in Runs : ComponentSources \subseteq runs[r].loaded}

LoadedOf(rs) == [r \in Runs |-> rs[r].loaded]

\* what holds of every state: the catalogs are hydrated at most once, by no
\* run that failed, and they are ready only through a run that succeeded
LoadStateInvariant ==
    /\ Cardinality(HydratingRuns) <= 1
    /\ \A r \in Runs : runs[r].outcome = "rejected" => runs[r].loaded = {}
    /\ catalogLoadState.ready
          <=> \E r \in Runs : runs[r].outcome = "fulfilled"

\* what holds of every step
LoadStateStep ==
    /\ LoadPhase(catalogLoadState') # LoadPhase(catalogLoadState) =>
          <<LoadPhase(catalogLoadState), LoadPhase(catalogLoadState')>>
              \in PhaseSteps
    /\ catalogLoadState.ready =>
          /\ catalogLoadState'.ready
          /\ nextRun' = nextRun
          /\ fetches' \subseteq fetches
          /\ LoadedOf(runs') = LoadedOf(runs)
    /\ \A r \in Runs :
          (runs[r].outcome = "rejected"
              /\ ~runs[r].finallyRan /\ runs'[r].finallyRan) =>
                 /\ catalogLoadState' = [ready |-> FALSE, promise |-> None]
                 /\ LoadedOf(runs') = LoadedOf(runs)
    /\ \A c \in Callers :
          (LoadPhase(catalogLoadState) = "idle"
              /\ callers[c].pc = "idle" /\ callers'[c].pc # "idle") =>
                 /\ nextRun' = nextRun + 1
                 /\ catalogLoadState'.promise = Some(nextRun)
                 /\ runs'[nextRun].pc = "list"

====
